---- MODULE Spec2Model ----
(***************************************************************************)
(* Non-destructive queue inspection of rabbitmq_interface.py               *)
(* (RabbitMQInterface): peek_messages and the other browsing operations,   *)
(* over a broker queue with basic_get(auto_ack=False) / basic_nack.        *)
(***************************************************************************)
EXTENDS Integers, Sequences, FiniteSets, TLC

\* ----------------------------------------------------------------- bounds
\* Longest queue the broker holds when an operation starts.
MaxQueue == 4
\* Largest limit the operator enters for peek_messages (0 is accepted).
MaxLimit == 2

\* ------------------------------------------------------- program constants
\* The over-fetch multiplier of peek_messages: range(min(limit * 3, ...)).
OverFetch == 3
\* show_limit of list_queue_commands.
ShowLimit == 10
\* Sample size of inspect_queue_by_name and _check_command_queue_status.
SampleSize == 3
\* Upper bound of the sample of _analyze_message_types: min(max_messages, 10).
AnalyzeMax == 10
ImeiLength == 15

\* ------------------------------------------------------------ message data
\* self.target_imei is None until the operator sets it.
NoImei == "None"
TargetImei == "999"

\* A message body is a byte string; what the tool does with it depends on
\* whether it is valid UTF-8, whether the text is JSON, whether the JSON value
\* is an object, and on the object's "type" and "imei" fields.
ObjectBody(t, d) == [utf8 |-> TRUE, json |-> "object", type |-> t, imei |-> d]
ArrayBody == [utf8 |-> TRUE, json |-> "other", type |-> "absent", imei |-> "absent"]
TextBody == [utf8 |-> TRUE, json |-> "invalid", type |-> "absent", imei |-> "absent"]
BadUtf8Body == [utf8 |-> FALSE, json |-> "invalid", type |-> "absent", imei |-> "absent"]

Bodies ==
    { ObjectBody("DATA", TargetImei), ObjectBody("absent", "111"),
      ArrayBody, TextBody, BadUtf8Body }

Min(a, b) == IF a <= b THEN a ELSE b

RECURSIVE Reverse(_)
Reverse(s) == IF s = <<>> THEN <<>> ELSE Append(Reverse(Tail(s)), Head(s))

\* Queues of n messages: message k is the k-th from the head, id k.
QueuesOver(bs, n) ==
    { [k \in 1..n |-> [id |-> k, body |-> f[k]]] : f \in [1..n -> bs] }

VARIABLES
    queue,                \* ready messages of the browsed queue, head first
    unacked,              \* messages delivered to this channel, not yet acked or nacked
    inflight,             \* messages delivered to another consumer, not yet acked
    consumed,             \* messages another consumer acknowledged
    target_imei,          \* self.target_imei
    pc,                   \* position of the running operation
    op,                   \* the operation that runs or ran last
    limit,                \* peek_messages: limit
    message_count,        \* queue_info.method.message_count
    i,                    \* loop counter of the fetch loop
    messages_shown,       \* peek_messages: messages_shown
    messages_to_requeue,  \* delivery tags in fetch order
    exc,                  \* the exception propagating out of the try block
    displayed,            \* what the operator was shown, in order
    log,                  \* reports the operation made
    nacked,               \* delivery tags in the order basic_nack was called
    gets,                 \* number of basic_get calls of the operation
    gotNone,              \* basic_get returned no message
    fetched,              \* the messages basic_get returned, in order
    queue0                \* the queue when the operation started

\* The other consumer's side of the broker.
consumerVars == << inflight, consumed >>
\* What an operation reports, and the record of its broker calls.
outVars == << displayed, log, nacked, gets, gotNone, fetched, queue0 >>
\* The local variables of the running operation.
localVars == << limit, message_count, i, messages_shown, messages_to_requeue, exc >>

\* The state of the browsed queue and of the browsing operations.
browseVars ==
    << queue, unacked, inflight, consumed, target_imei, limit,
       message_count, i, messages_shown, messages_to_requeue, exc, displayed,
       nacked, gets, gotNone, fetched, queue0 >>

VARIABLES
    logged,               \* records handed to logger by the cleanup, with their level
    connection,           \* self.connection
    channel,              \* self.channel
    conns_open,           \* connections of this process that are open at the broker
    conns_made,           \* connections created so far
    chans_made,           \* channels created so far
    failed,               \* connect: attempts that failed in this call
    reported,             \* connect: failures reported in this call
    decided,              \* connect: decisions the operator gave in this call
    last_choice,          \* connect: choice
    last_attempt,         \* connect: how the last attempt ended
    connect_result,       \* how the last call of connect ended
    caller,               \* who called connect
    conn0,                \* self.connection when ensure_connection was entered
    chan0,                \* self.channel when ensure_connection was entered
    chan_failed,          \* ensure_connection: connection.channel() raised
    ensured,              \* the running operation has called ensure_connection
    use,                  \* the last use of self.channel by an operation
    mgmt,                 \* what the management endpoint answers
    broker_queues,        \* the candidate queues at the broker
    queues_found,         \* what _discover_queues_smart returned
    probes,               \* passive declares _discover_queues_smart issued
    disc_exc,             \* the exception that left _discover_queues_smart
    cmd_state,            \* the device's command queue: "absent", "durable", "transient"
    cmd_queue,            \* ready messages of the device's command queue, head first
    sent,                 \* send_command: the message dict
    calls,                \* send_command: the channel calls made, in order
    send_result,          \* send_command: what it returned
    depth0,               \* depth of the command queue when send_command was called
    depth_reported,       \* send_command: the message count it logged
    uuid_next,            \* uuid4 values minted so far
    arg_id,               \* send_command: the command_id argument
    queue_exists,         \* the browsed queue exists at the broker
    answer,               \* purge_queue: what the operator typed at the prompt
    op_result,            \* what the operation returned
    consumers,            \* consumer registrations of this tool at the broker
    mon_acked,            \* tags the monitor's callback acknowledged, in order
    filter_type,          \* argument of list_all_queues
    show_active_only,     \* argument of list_all_queues
    listed,               \* rows of the table list_all_queues printed
    list_outcome,         \* how list_all_queues ended
    search_term,          \* argument of inspect_queues_by_partial_name
    matching_queues,      \* the matching snapshots, as sorted for display
    search_outcome,       \* what the search printed
    search_choice,        \* the operator's answer to the prompt, as typed
    inspected,            \* names inspect_queue_by_name was called with
    search_result,        \* what inspect_queues_by_partial_name returned
    discoveries,          \* calls of _discover_queues_smart by the operation
    message_types,        \* _analyze_message_types: messages counted per type
    imei_counts,          \* _analyze_message_types: messages counted per device
    filtered_count        \* check_monitor_status: "Messages from <target>"

\* The logging calls of the cleanup handler.
faultVars == << logged >>

\* The broker session: the handles and the local state of connect and
\* ensure_connection.
connVars ==
    << connection, channel, conns_open, conns_made, chans_made, failed,
       reported, decided, last_choice, last_attempt, connect_result, caller,
       conn0, chan0, chan_failed, ensured, use >>

\* Queue discovery: its inputs and its result.
discVars == << mgmt, broker_queues, queues_found, probes, disc_exc >>

\* send_command and the device's command queue.
sendVars ==
    << cmd_state, cmd_queue, sent, calls, send_result, depth0, depth_reported,
       uuid_next, arg_id >>

\* The named-queue operations: existence, confirmation, return value.
opsVars == << queue_exists, answer, op_result >>

\* monitor_realtime: its consumer registrations and acknowledgments.
monVars == << consumers, mon_acked >>

\* list_all_queues: its arguments and what it printed.
listVars == << filter_type, show_active_only, listed, list_outcome >>

\* inspect_queues_by_partial_name: its argument, locals and result.
searchVars ==
    << search_term, matching_queues, search_outcome, search_choice, inspected,
       search_result, discoveries >>

\* check_monitor_status: the counts of the analysis and the reported number.
statusVars == << message_types, imei_counts, filtered_count >>

\* The state of the operations on named queues, of the monitor and of the
\* queue listings.
laterVars == << opsVars, monVars, listVars, searchVars, statusVars >>

\* The state outside the browsed queue.
sessionVars == << faultVars, connVars, discVars, sendVars, laterVars >>

vars ==
    << queue, unacked, inflight, consumed, target_imei, pc, op, limit,
       message_count, i, messages_shown, messages_to_requeue, exc, displayed,
       log, nacked, gets, gotNone, fetched, queue0, sessionVars >>

\* ------------------------------------------------------------------ decode
\* json.loads(body.decode("utf-8")): the exception it raises, or "ok".
JsonLoads(body) ==
    IF ~body.utf8 THEN "UnicodeDecodeError"
    ELSE IF body.json = "invalid" THEN "JSONDecodeError"
    ELSE "ok"

\* data.get(key, default) on a decoded JSON object.
DictGet(body, key, default) ==
    IF body[key] = "absent" THEN default ELSE body[key]

\* The device filter of peek_messages: "match", "skip", or the exception that
\* leaves the try/except json.JSONDecodeError.
FilterStep(body, target) ==
    IF target = NoImei THEN "match"
    ELSE IF JsonLoads(body) = "JSONDecodeError" THEN "skip"
    ELSE IF JsonLoads(body) # "ok" THEN JsonLoads(body)
    ELSE IF body.json # "object" THEN "AttributeError"
    ELSE IF DictGet(body, "imei", "UNKNOWN") # target THEN "skip"
    ELSE "match"

\* _display_message: the exception it raises ("none" when it returns) and the
\* class under which the message was shown.
DisplayMessage(body) ==
    IF JsonLoads(body) = "JSONDecodeError" THEN [raised |-> "none", cls |-> "RAW"]
    ELSE IF JsonLoads(body) # "ok" THEN [raised |-> JsonLoads(body), cls |-> "none"]
    ELSE IF body.json # "object" THEN [raised |-> "AttributeError", cls |-> "none"]
    ELSE [raised |-> "none", cls |-> DictGet(body, "type", "UNKNOWN")]

\* The outcome of json.loads(body.decode("utf-8")) followed by data.get(...)
\* under "except json.JSONDecodeError": "ok", "raw" (the handler ran), or the
\* exception that leaves the try statement.
ParseOutcome(body) ==
    IF JsonLoads(body) = "JSONDecodeError" THEN "raw"
    ELSE IF JsonLoads(body) # "ok" THEN JsonLoads(body)
    ELSE IF body.json # "object" THEN "AttributeError"
    ELSE "ok"

Raises(body) == ParseOutcome(body) \notin {"ok", "raw"}

\* ------------------------------------------------------------------ broker
\* basic_nack(delivery_tag, requeue=True): the broker puts the message back
\* at the front of the queue.
NackRequeue_twice(q, m) == <<m, m>> \o q
NackRequeue_dropped(q, m) == q
NackRequeue(q, m) == <<m>> \o q

\* The unacknowledged message a delivery tag names.
ByTag(tag) == CHOOSE m \in unacked : m.id = tag

\* basic_nack for each message of s, in the order of s.
RECURSIVE NackAll(_, _)
NackAll(q, s) == IF s = <<>> THEN q ELSE NackAll(NackRequeue(q, Head(s)), Tail(s))

Ids(s) == [k \in 1..Len(s) |-> s[k].id]
Range(s) == { s[k] : k \in 1..Len(s) }

\* ----------------------------------------------------------- peek_messages
FetchBudget_whole(lim, count) == count
FetchBudget(lim, count) == Min(lim * OverFetch, count)

\* messages_to_requeue.append(method_frame.delivery_tag), before the filter.
TagsAfterFetch_matchOnly(tags, m) ==
    IF FilterStep(m.body, target_imei) = "match" THEN Append(tags, m.id) ELSE tags
TagsAfterFetch(tags, m) == Append(tags, m.id)

\* if messages_shown >= limit: break
ShouldBreak(shown, lim) == shown >= lim

\* The finally block: the cleanup runs however the try block was left.
AfterTry_noFinally(e) == IF e = "none" THEN "peek_cleanup" ELSE "peek_end"
AfterTry(e) == "peek_cleanup"

\* for delivery_tag in reversed(messages_to_requeue)
RequeueOrder_fifo(tags) == tags
RequeueOrder_skipFirst(tags) == IF tags = <<>> THEN <<>> ELSE Reverse(Tail(tags))
RequeueOrder(tags) == Reverse(tags)

\* The report after the cleanup, when the try block raised nothing.
NoMatchReport(target, shown) ==
    IF target # NoImei /\ shown = 0 THEN {"no_messages_for_imei"} ELSE {}

\* main / show_main_menu: the target device is set once, when it is unset.
SetTargetImei ==
    /\ pc = "idle"
    /\ target_imei = NoImei
    /\ target_imei' = TargetImei
    /\ op' = "set_imei"
    /\ UNCHANGED << queue, unacked, consumerVars, pc, localVars, outVars >>
    /\ UNCHANGED sessionVars

PeekStart(lim) ==
    /\ pc = "idle"
    /\ op' = "peek"
    /\ limit' = lim
    /\ message_count' = Len(queue)
    /\ queue0' = queue
    /\ i' = 0
    /\ messages_shown' = 0
    /\ messages_to_requeue' = <<>>
    /\ exc' = "none"
    /\ displayed' = <<>>
    /\ nacked' = <<>>
    /\ gets' = 0
    /\ gotNone' = FALSE
    /\ fetched' = <<>>
    /\ IF Len(queue) = 0
         THEN log' = {"no_messages_to_peek"} /\ pc' = "idle"
         ELSE log' = {"peeking"} /\ pc' = "peek_fetch"
    /\ UNCHANGED << queue, unacked, consumerVars, target_imei >>
    /\ UNCHANGED sessionVars

\* One iteration of the fetch loop.
PeekFetch ==
    /\ pc = "peek_fetch"
    /\ IF i >= FetchBudget(limit, message_count)
         THEN /\ pc' = AfterTry("none")
              /\ UNCHANGED << queue, unacked, i, messages_shown,
                              messages_to_requeue, exc, displayed, gets,
                              gotNone, fetched >>
         ELSE IF queue = <<>>
         THEN /\ gets' = gets + 1
              /\ gotNone' = TRUE
              /\ pc' = AfterTry("none")
              /\ UNCHANGED << queue, unacked, i, messages_shown,
                              messages_to_requeue, exc, displayed, fetched >>
         ELSE LET m == Head(queue)
                  f == FilterStep(m.body, target_imei)
                  d == DisplayMessage(m.body)
              IN  /\ gets' = gets + 1
                  /\ queue' = Tail(queue)
                  /\ unacked' = unacked \cup {m}
                  /\ fetched' = Append(fetched, m)
                  /\ messages_to_requeue' = TagsAfterFetch(messages_to_requeue, m)
                  /\ UNCHANGED gotNone
                  /\ IF f = "skip"
                       THEN /\ i' = i + 1
                            /\ UNCHANGED << pc, messages_shown, exc, displayed >>
                     ELSE IF f # "match"
                       THEN /\ exc' = f
                            /\ pc' = AfterTry(f)
                            /\ UNCHANGED << i, messages_shown, displayed >>
                     ELSE IF d.raised # "none"
                       THEN /\ exc' = d.raised
                            /\ pc' = AfterTry(d.raised)
                            /\ UNCHANGED << i, messages_shown, displayed >>
                     ELSE /\ displayed' = Append(displayed,
                                 [num |-> messages_shown + 1, id |-> m.id, cls |-> d.cls])
                          /\ messages_shown' = messages_shown + 1
                          /\ UNCHANGED exc
                          /\ IF ShouldBreak(messages_shown + 1, limit)
                               THEN pc' = AfterTry("none") /\ UNCHANGED i
                               ELSE i' = i + 1 /\ UNCHANGED pc
    /\ UNCHANGED << consumerVars, target_imei, op, limit, message_count, log,
                    nacked, queue0 >>
    /\ UNCHANGED sessionVars

\* One iteration of the cleanup loop of the finally block.
PeekNack ==
    /\ pc = "peek_cleanup"
    /\ LET order == RequeueOrder(messages_to_requeue)
           k == Len(nacked)
       IN  IF k >= Len(order)
             THEN /\ pc' = "peek_end"
                  /\ UNCHANGED << queue, unacked, nacked >>
             ELSE /\ nacked' = Append(nacked, order[k + 1])
                  /\ queue' = NackRequeue(queue, ByTag(order[k + 1]))
                  /\ unacked' = unacked \ {ByTag(order[k + 1])}
                  /\ UNCHANGED pc
    /\ UNCHANGED << consumerVars, target_imei, op, localVars, displayed, log,
                    gets, gotNone, fetched, queue0 >>
    /\ UNCHANGED sessionVars

\* After the finally block: the no-match report, or the outer except handler.
PeekEnd ==
    /\ pc = "peek_end"
    /\ log' = IF exc # "none"
                THEN log \cup {"error_peeking"}
                ELSE log \cup NoMatchReport(target_imei, messages_shown)
    /\ pc' = "idle"
    /\ UNCHANGED << queue, unacked, consumerVars, target_imei, op, localVars,
                    displayed, nacked, gets, gotNone, fetched, queue0 >>
    /\ UNCHANGED sessionVars

\* ------------------------------------------------- another consumer (race)
\* Messages the other consumer takes from the queue during the session.
MaxTaken == 1

\* The broker delivers the head of the queue to the other consumer.
ConsumerDeliver ==
    /\ pc # "idle"
    /\ queue # <<>>
    /\ Cardinality(inflight) + Cardinality(consumed) < MaxTaken
    /\ inflight' = inflight \cup {Head(queue)}
    /\ queue' = Tail(queue)
    /\ UNCHANGED << unacked, consumed, target_imei, pc, op, localVars, outVars >>
    /\ UNCHANGED sessionVars

\* ch.basic_ack(delivery_tag=method.delivery_tag)
ConsumerAck ==
    /\ pc # "idle"
    /\ \E m \in inflight :
          /\ inflight' = inflight \ {m}
          /\ consumed' = consumed \cup {m}
    /\ UNCHANGED << queue, unacked, target_imei, pc, op, localVars, outVars >>
    /\ UNCHANGED sessionVars

\* ------------------------------------------- the other browsing operations
\* The result of a browsing loop: the queue and the unacknowledged set it
\* leaves, and what it fetched, showed, nacked and raised.
LoopStart(q) ==
    [q |-> q, un |-> {}, fetched |-> <<>>, displayed |-> <<>>, nacked |-> <<>>,
     exc |-> "none", gets |-> 0, gotNone |-> FALSE]

\* What a sampled message is shown or counted as.
EntryClass(name, body) ==
    IF ParseOutcome(body) = "raw" THEN "RAW"
    ELSE IF name = "analyze"
      THEN IF target_imei = NoImei \/ DictGet(body, "imei", "UNKNOWN") = target_imei
             THEN DictGet(body, "type", "UNKNOWN")
             ELSE "not_counted"
    ELSE IF name = "inspect" THEN DictGet(body, "type", "Unknown")
    ELSE "command"

\* for i in range(n): basic_get, record the tag, decode; inside try ... finally.
RECURSIVE SampleLoop(_, _, _, _)
SampleLoop(name, r, n, k) ==
    IF k >= n THEN r
    ELSE IF r.q = <<>> THEN [r EXCEPT !.gets = @ + 1, !.gotNone = TRUE]
    ELSE LET m == Head(r.q)
             r1 == [r EXCEPT !.q = Tail(@), !.un = @ \cup {m},
                             !.fetched = Append(@, m), !.gets = @ + 1]
         IN  IF Raises(m.body)
               THEN [r1 EXCEPT !.exc = ParseOutcome(m.body)]
               ELSE SampleLoop(name,
                      [r1 EXCEPT !.displayed = Append(@,
                          [num |-> k + 1, id |-> m.id, cls |-> EntryClass(name, m.body)])],
                      n, k + 1)

\* finally: for delivery_tag in reversed(messages_to_requeue): basic_nack
RequeueAll(r) ==
    [r EXCEPT !.q = NackAll(@, Reverse(r.fetched)), !.un = {},
              !.nacked = Ids(Reverse(r.fetched))]

\* inspect_queue_by_name: for i in range(n): basic_get, decode and print,
\* basic_nack; no finally, so a raising decode skips the nack.
RECURSIVE InspectLoop(_, _, _)
InspectLoop(r, n, k) ==
    IF k >= n THEN r
    ELSE IF r.q = <<>> THEN [r EXCEPT !.gets = @ + 1, !.gotNone = TRUE]
    ELSE LET m == Head(r.q)
             r1 == [r EXCEPT !.fetched = Append(@, m), !.gets = @ + 1]
         IN  IF Raises(m.body)
               THEN [r1 EXCEPT !.q = Tail(@), !.un = @ \cup {m},
                               !.exc = ParseOutcome(m.body)]
               ELSE InspectLoop(
                      [r1 EXCEPT !.q = NackRequeue(Tail(@), m),
                                 !.nacked = Append(@, m.id),
                                 !.displayed = Append(@,
                          [num |-> k + 1, id |-> m.id, cls |-> EntryClass("inspect", m.body)])],
                      n, k + 1)

\* list_queue_commands: fetch message_count messages, show the last show_limit,
\* then nack all in reverse; a raising decode leaves the try block before the
\* nack loop.
RECURSIVE FetchAll(_, _, _)
FetchAll(r, n, k) ==
    IF k >= n THEN r
    ELSE IF r.q = <<>> THEN [r EXCEPT !.gets = @ + 1, !.gotNone = TRUE]
    ELSE FetchAll([r EXCEPT !.q = Tail(@), !.un = @ \cup {Head(r.q)},
                            !.fetched = Append(@, Head(r.q)), !.gets = @ + 1],
                  n, k + 1)

MessagesToShow_first(messages, count) ==
    IF count <= ShowLimit \/ Len(messages) <= ShowLimit THEN messages
    ELSE SubSeq(messages, 1, ShowLimit)
MessagesToShow(messages, count) ==
    IF count <= ShowLimit \/ Len(messages) <= ShowLimit THEN messages
    ELSE SubSeq(messages, Len(messages) - ShowLimit + 1, Len(messages))

StartIndex(messages, count) ==
    IF count <= ShowLimit THEN 1
    ELSE count - Len(MessagesToShow(messages, count)) + 1

RECURSIVE ShowLoop(_, _, _, _)
ShowLoop(r, show, start, idx) ==
    IF idx > Len(show) THEN r
    ELSE IF Raises(show[idx].body)
      THEN [r EXCEPT !.exc = ParseOutcome(show[idx].body)]
      ELSE ShowLoop(
             [r EXCEPT !.displayed = Append(@,
                 [num |-> start + idx - 1, id |-> show[idx].id,
                  cls |-> EntryClass("list", show[idx].body)])],
             show, start, idx + 1)

ListResult(q) ==
    LET f == FetchAll(LoopStart(q), Len(q), 0)
        s == ShowLoop(f, MessagesToShow(f.fetched, Len(q)),
                      StartIndex(f.fetched, Len(q)), 1)
    IN  IF s.exc = "none" THEN RequeueAll(s) ELSE s

InspectResult(q) == InspectLoop(LoopStart(q), Min(SampleSize, Len(q)), 0)

CommandStatusResult(q) ==
    RequeueAll(SampleLoop("cmdstatus", LoopStart(q), Min(Len(q), SampleSize), 0))

AnalyzeResult(q, max_messages) ==
    RequeueAll(SampleLoop("analyze", LoopStart(q), Min(max_messages, AnalyzeMax), 0))

\* The keys the dictionaries of _analyze_message_types can get in the model.
TypeNames == {"DATA", "UNKNOWN", "RAW"}
ImeiNames == {TargetImei, "111", "UNKNOWN"}

\* An empty dictionary of counts.
NoCounts(keys) == [k \in keys |-> 0]

\* The report line of the target device was not printed.
NotReported == 0 - 1

\* imei_counts after the loop over the sampled messages ms: every decoded
\* message is counted under its imei.
ImeiCounts(ms) ==
    [d \in ImeiNames |->
        Cardinality({ k \in 1..Len(ms) :
            /\ ParseOutcome(ms[k].body) = "ok"
            /\ DictGet(ms[k].body, "imei", "UNKNOWN") = d })]

\* message_types after the loop: a decoded message is counted under its
\* type when no target is set or its imei is the target; a message that is
\* not JSON is counted under RAW.
MessageTypes(ms, target) ==
    [t \in TypeNames |->
        Cardinality({ k \in 1..Len(ms) :
            \/ /\ ParseOutcome(ms[k].body) = "ok"
               /\ target = NoImei \/ DictGet(ms[k].body, "imei", "UNKNOWN") = target
               /\ DictGet(ms[k].body, "type", "UNKNOWN") = t
            \/ /\ ParseOutcome(ms[k].body) = "raw"
               /\ t = "RAW" })]

\* sum(d.values())
RECURSIVE SumValues(_, _)
SumValues(d, keys) ==
    IF keys = {} THEN 0
    ELSE LET k == CHOOSE x \in keys : TRUE
         IN  d[k] + SumValues(d, keys \ {k})

\* if self.target_imei and imei_breakdown: filtered_count = sum(...)
FilteredCount(counts, target) ==
    IF target # NoImei /\ SumValues(counts, DOMAIN counts) > 0
      THEN SumValues(counts, DOMAIN counts)
      ELSE NotReported

\* The state an operation that ran to its end leaves.
Completed(name, r, reports) ==
    /\ pc = "idle"
    /\ op' = name
    /\ queue0' = queue
    /\ message_count' = Len(queue)
    /\ queue' = r.q
    /\ unacked' = unacked \cup r.un
    /\ fetched' = r.fetched
    /\ displayed' = r.displayed
    /\ nacked' = r.nacked
    /\ exc' = r.exc
    /\ gets' = r.gets
    /\ gotNone' = r.gotNone
    /\ log' = reports \cup (IF r.exc = "none" THEN {} ELSE {"error"})
    /\ messages_to_requeue' = Ids(r.fetched)
    /\ IF name = "analyze" /\ r.exc = "none"
         THEN /\ message_types' = MessageTypes(r.fetched, target_imei)
              /\ imei_counts' = ImeiCounts(r.fetched)
              /\ filtered_count' =
                    FilteredCount(ImeiCounts(r.fetched), target_imei)
         ELSE /\ message_types' = NoCounts(TypeNames)
              /\ imei_counts' = NoCounts(ImeiNames)
              /\ filtered_count' = NotReported
    /\ UNCHANGED << consumerVars, target_imei, pc, limit, i, messages_shown >>
    /\ UNCHANGED << faultVars, connVars, discVars, sendVars, opsVars, monVars,
                    listVars, searchVars >>

ListQueueCommands ==
    IF queue = <<>>
      THEN Completed("list", LoopStart(queue), {"queue_empty"})
      ELSE Completed("list", ListResult(queue), {"listing"})

InspectQueueByName ==
    IF queue = <<>>
      THEN Completed("inspect", LoopStart(queue), {"queue_empty"})
      ELSE Completed("inspect", InspectResult(queue), {"samples"})

\* check_monitor_status calls it with the target device's queue.
CheckCommandQueueStatus ==
    /\ target_imei # NoImei
    /\ IF queue = <<>>
         THEN Completed("cmdstatus", LoopStart(queue), {"queue_empty"})
         ELSE Completed("cmdstatus", CommandStatusResult(queue), {"next_commands"})

\* check_monitor_status calls it with max_messages = message_count > 0.
AnalyzeMessageTypes ==
    /\ queue # <<>>
    /\ Completed("analyze", AnalyzeResult(queue, Len(queue)), {"breakdown"})

\* ---------------------------------------------------------- broker session
\* Connections and channels the session creates.
MaxConnections == 2
MaxChannels == 2
\* Failed attempts of one call of connect.
MaxAttempts == 1

\* self.connection = None, self.channel = None
NoConnection == [id |-> 0, open |-> FALSE]
NoChannel == [id |-> 0, conn |-> 0, open |-> FALSE]

\* Operations that begin with self.ensure_connection(), and operations that
\* use self.channel without it.
EnsuringOps ==
    { "check_monitor_status", "peek_messages", "monitor_realtime",
      "find_queues_by_partial_name", "list_all_queues", "inspect_queue_by_name" }
DirectOps ==
    { "send_command", "check_queue_status", "list_queue_commands", "purge_queue" }

\* Where an operation goes first.
OpEntry(name) == IF name \in EnsuringOps THEN "op_ensure" ELSE "op_use"

\* The branch ensure_connection takes.
EnsurePlan_alwaysReconnect(conn, chan) ==
    IF conn.open /\ chan.open THEN "noop" ELSE "reconnect"
EnsurePlan(conn, chan) ==
    IF ~conn.open THEN "reconnect"
    ELSE IF ~chan.open THEN "channel"
    ELSE "noop"

\* connect: where the loop goes after an attempt.
AfterAttempt_silent(ok) == IF ok THEN "return" ELSE "connect_try"
AfterAttempt(ok) == IF ok THEN "return" ELSE "connect_failed"

\* Where connect returns to.
ReturnTo(c) == IF c = "main" THEN "idle" ELSE "op_use"

\* connect is entered: the locals of the call.
EnterConnect(c) ==
    /\ caller' = c
    /\ failed' = 0
    /\ reported' = 0
    /\ decided' = 0
    /\ last_choice' = "none"
    /\ last_attempt' = "none"
    /\ connect_result' = "running"
    /\ pc' = "connect_try"

\* main: interface.connect() before the menu is shown.
MainConnect ==
    /\ pc = "idle"
    /\ op = "none"
    /\ op' = "connect"
    /\ EnterConnect("main")
    /\ UNCHANGED << discVars, sendVars >>
    /\ UNCHANGED << browseVars, log, faultVars, connection, channel, conns_open,
                    conns_made, chans_made, conn0, chan0, chan_failed, ensured,
                    use >>
    /\ UNCHANGED laterVars

\* One attempt of the loop of connect.  outcome: "refused" (BlockingConnection
\* raises), "no_channel" (the connection is made, connection.channel() raises
\* and the connection stays open), "dropped" (the same, the connection is
\* closed by the failure), "ok".
ConnectAttempt(outcome) ==
    /\ pc = "connect_try"
    /\ outcome # "ok" => failed < MaxAttempts
    /\ outcome # "refused" => conns_made < MaxConnections
    /\ outcome = "ok" => chans_made < MaxChannels
    /\ LET new == conns_made + 1 IN
       /\ connection' =
            CASE outcome = "refused" -> connection
              [] outcome = "dropped" -> [id |-> new, open |-> FALSE]
              [] OTHER -> [id |-> new, open |-> TRUE]
       /\ conns_made' = IF outcome = "refused" THEN conns_made ELSE new
       /\ conns_open' =
            IF outcome \in {"no_channel", "ok"} THEN conns_open \cup {new}
            ELSE conns_open
       /\ channel' =
            IF outcome = "ok"
              THEN [id |-> chans_made + 1, conn |-> new, open |-> TRUE]
              ELSE channel
    /\ chans_made' = IF outcome = "ok" THEN chans_made + 1 ELSE chans_made
    /\ failed' = IF outcome = "ok" THEN failed ELSE failed + 1
    /\ last_attempt' = IF outcome = "ok" THEN "ok" ELSE "failed"
    /\ log' = IF outcome = "ok" THEN log \cup {"connected"} ELSE log
    /\ IF AfterAttempt(outcome = "ok") = "return"
         THEN /\ pc' = ReturnTo(caller)
              /\ connect_result' = "returned"
              /\ ensured' = (caller = "ensure")
         ELSE /\ pc' = AfterAttempt(outcome = "ok")
              /\ UNCHANGED << connect_result, ensured >>
    /\ UNCHANGED << discVars, sendVars >>
    /\ UNCHANGED << browseVars, op, faultVars, reported, decided, last_choice,
                    caller, conn0, chan0, chan_failed, use >>
    /\ UNCHANGED laterVars

\* The except handler of connect: logger.error and the printed diagnostics.
ConnectReport ==
    /\ pc = "connect_failed"
    /\ log' = log \cup {"connect_failed"}
    /\ reported' = reported + 1
    /\ pc' = "connect_prompt"
    /\ UNCHANGED << discVars, sendVars >>
    /\ UNCHANGED << browseVars, op, faultVars, connection, channel, conns_open,
                    conns_made, chans_made, failed, decided, last_choice,
                    last_attempt, connect_result, caller, conn0, chan0,
                    chan_failed, ensured, use >>
    /\ UNCHANGED laterVars

\* choice = input(...): "q" leaves through sys.exit(1) and main's finally
\* (close); "1" and anything else start the next attempt.
ConnectDecide(choice) ==
    /\ pc = "connect_prompt"
    /\ decided' = decided + 1
    /\ last_choice' = choice
    /\ IF choice = "q"
         THEN /\ pc' = "exited"
              /\ connect_result' = "quit"
              /\ connection' = [connection EXCEPT !.open = FALSE]
              /\ channel' = IF channel.conn = connection.id
                              THEN [channel EXCEPT !.open = FALSE] ELSE channel
              /\ conns_open' = conns_open \ {connection.id}
         ELSE /\ pc' = "connect_try"
              /\ UNCHANGED << connect_result, connection, channel, conns_open >>
    /\ UNCHANGED << discVars, sendVars >>
    /\ UNCHANGED << browseVars, op, log, faultVars, conns_made, chans_made,
                    failed, reported, last_attempt, caller, conn0, chan0,
                    chan_failed, ensured, use >>
    /\ UNCHANGED laterVars

\* An operation of the menu is called.
OpBegin(name) ==
    /\ pc = "idle"
    /\ op # "none"
    /\ op' = name
    /\ ensured' = FALSE
    /\ log' = {}
    /\ pc' = OpEntry(name)
    /\ UNCHANGED << discVars, sendVars >>
    /\ UNCHANGED << browseVars, faultVars, connection, channel, conns_open,
                    conns_made, chans_made, failed, reported, decided,
                    last_choice, last_attempt, connect_result, caller, conn0,
                    chan0, chan_failed, use >>
    /\ UNCHANGED laterVars

\* ensure_connection.  created: connection.channel() returns a channel;
\* stays: the connection is still open after connection.channel() raised.
EnsureConnection(created, stays) ==
    /\ pc = "op_ensure"
    /\ conn0' = connection
    /\ chan0' = channel
    /\ LET plan == EnsurePlan(connection, channel) IN
       CASE plan = "noop" ->
              /\ created /\ stays
              /\ pc' = "op_use"
              /\ ensured' = TRUE
              /\ chan_failed' = FALSE
              /\ UNCHANGED << log, connection, channel, conns_open, chans_made,
                              failed, reported, decided, last_choice,
                              last_attempt, connect_result, caller >>
         [] plan = "channel" /\ created ->
              /\ stays
              /\ chans_made < MaxChannels
              /\ channel' = [id |-> chans_made + 1, conn |-> connection.id,
                             open |-> TRUE]
              /\ chans_made' = chans_made + 1
              /\ log' = log \cup {"channel_lost"}
              /\ pc' = "op_use"
              /\ ensured' = TRUE
              /\ chan_failed' = FALSE
              /\ UNCHANGED << connection, conns_open, failed, reported, decided,
                              last_choice, last_attempt, connect_result, caller >>
         [] plan = "channel" /\ ~created ->
              /\ chan_failed' = TRUE
              /\ log' = log \cup {"channel_lost", "error_ensuring"}
              /\ connection' = [connection EXCEPT !.open = stays]
              /\ conns_open' = IF stays THEN conns_open
                                ELSE conns_open \ {connection.id}
              /\ EnterConnect("ensure")
              /\ UNCHANGED << channel, chans_made, ensured >>
         [] plan = "reconnect" ->
              /\ created /\ stays
              /\ chan_failed' = FALSE
              /\ log' = log \cup {"connection_lost"}
              /\ EnterConnect("ensure")
              /\ UNCHANGED << connection, channel, conns_open, chans_made,
                              ensured >>
    /\ UNCHANGED << discVars, sendVars >>
    /\ UNCHANGED << browseVars, op, faultVars, conns_made, use >>
    /\ UNCHANGED laterVars

\* The operation uses self.channel.  closes: the call makes the broker close
\* the channel (a passive declare of a queue that does not exist).
UseChannel(closes) ==
    /\ pc = "op_use"
    /\ use' = [op |-> op, ensured |-> ensured, open |-> channel.open]
    /\ IF channel.open
         THEN /\ channel' = [channel EXCEPT !.open = ~closes]
              /\ log' = IF closes THEN log \cup {"error"} ELSE log
         ELSE /\ ~closes
              /\ log' = log \cup {"error"}
              /\ UNCHANGED channel
    /\ pc' = "idle"
    /\ UNCHANGED << discVars, sendVars >>
    /\ UNCHANGED << browseVars, op, faultVars, connection, conns_open,
                    conns_made, chans_made, failed, reported, decided,
                    last_choice, last_attempt, connect_result, caller, conn0,
                    chan0, chan_failed, ensured >>
    /\ UNCHANGED laterVars

\* The broker or the network closes a connection of this process, between
\* operations or while connect waits for the operator.
ConnectionLost ==
    /\ pc \in {"idle", "connect_prompt"}
    /\ \E c \in conns_open :
          /\ conns_open' = conns_open \ {c}
          /\ connection' = IF connection.id = c
                             THEN [connection EXCEPT !.open = FALSE]
                             ELSE connection
          /\ channel' = IF channel.conn = c
                          THEN [channel EXCEPT !.open = FALSE]
                          ELSE channel
    /\ UNCHANGED << discVars, sendVars >>
    /\ UNCHANGED << browseVars, pc, op, log, faultVars, conns_made, chans_made,
                    failed, reported, decided, last_choice, last_attempt,
                    connect_result, caller, conn0, chan0, chan_failed, ensured,
                    use >>
    /\ UNCHANGED laterVars

\* ----------------------------------------------------------- specification
\* The browsed queue's side: nothing fetched, nothing reported.
InitLocal ==
    /\ unacked = {}
    /\ inflight = {}
    /\ consumed = {}
    /\ target_imei = NoImei
    /\ pc = "idle"
    /\ op = "none"
    /\ limit = 0
    /\ message_count = 0
    /\ i = 0
    /\ messages_shown = 0
    /\ messages_to_requeue = <<>>
    /\ exc = "none"
    /\ displayed = <<>>
    /\ log = {}
    /\ nacked = <<>>
    /\ gets = 0
    /\ gotNone = FALSE
    /\ fetched = <<>>
    /\ logged = {}

\* __init__: no connection, no channel.
InitHandles ==
    /\ connection = NoConnection
    /\ channel = NoChannel
    /\ conns_open = {}
    /\ conns_made = 0
    /\ chans_made = 0

\* connect and ensure_connection have not run.
InitConnLocals ==
    /\ failed = 0
    /\ reported = 0
    /\ decided = 0
    /\ last_choice = "none"
    /\ last_attempt = "none"
    /\ connect_result = "none"
    /\ caller = "none"
    /\ conn0 = NoConnection
    /\ chan0 = NoChannel
    /\ chan_failed = FALSE
    /\ ensured = FALSE
    /\ use = [op |-> "none", ensured |-> FALSE, open |-> FALSE]

\* No discovery has run; the management endpoint and the broker's queues
\* play no part.
InitNoDiscovery ==
    /\ mgmt = [reachable |-> FALSE, status |-> 0, queues |-> <<>>]
    /\ broker_queues = <<>>
    /\ queues_found = <<>>
    /\ probes = 0
    /\ disc_exc = "none"

\* No command has been sent.
InitNoSend ==
    /\ cmd_state = "absent"
    /\ cmd_queue = <<>>
    /\ sent = [command_id |-> [kind |-> "none", n |-> 0], command |-> "none",
               timestamp |-> "now", source |-> "command_sender"]
    /\ calls = <<>>
    /\ send_result = "none"
    /\ depth0 = 0
    /\ depth_reported = 0
    /\ uuid_next = 0
    /\ arg_id = [kind |-> "none", n |-> 0]

\* The browsed queue exists; no named-queue operation has run.
InitNoOps ==
    /\ queue_exists = TRUE
    /\ answer = "none"
    /\ op_result = "none"

\* No monitor has run.
InitNoMonitor ==
    /\ consumers = {}
    /\ mon_acked = <<>>

\* No listing has run.
InitNoList ==
    /\ filter_type = "none"
    /\ show_active_only = FALSE
    /\ listed = <<>>
    /\ list_outcome = "none"

\* No search has run.
InitNoSearch ==
    /\ search_term = "none"
    /\ matching_queues = <<>>
    /\ search_outcome = "none"
    /\ search_choice = "none"
    /\ inspected = <<>>
    /\ search_result = "none"
    /\ discoveries = 0

\* No status overview has run.
InitNoStatus ==
    /\ message_types = NoCounts(TypeNames)
    /\ imei_counts = NoCounts(ImeiNames)
    /\ filtered_count = NotReported

\* Nothing of the later operations has run.
InitLater ==
    InitNoOps /\ InitNoMonitor /\ InitNoList /\ InitNoSearch /\ InitNoStatus

InitTool ==
    /\ InitLater
    /\ InitLocal
    /\ InitHandles
    /\ InitConnLocals
    /\ InitNoDiscovery
    /\ InitNoSend

InitPeek ==
    /\ queue \in UNION { QueuesOver(Bodies, n) : n \in 0..MaxQueue }
    /\ queue0 = queue
    /\ InitTool

\* The queues of the race: decodable and undecodable bodies of both devices.
RaceBodies == { ObjectBody("DATA", TargetImei), ObjectBody("absent", "111") }

InitRace ==
    /\ queue \in UNION { QueuesOver(RaceBodies, n) : n \in 0..MaxQueue }
    /\ queue0 = queue
    /\ InitTool

\* peek_messages alone on the queue: no other consumer.
NextPeek ==
    \/ SetTargetImei
    \/ \E lim \in 0..MaxLimit : PeekStart(lim)
    \/ PeekFetch
    \/ PeekNack
    \/ PeekEnd

SpecPeek == InitPeek /\ [][NextPeek]_vars

\* peek_messages while another consumer takes messages from the same queue.
NextRace ==
    \/ SetTargetImei
    \/ \E lim \in 0..MaxLimit : PeekStart(lim)
    \/ PeekFetch
    \/ PeekNack
    \/ PeekEnd
    \/ ConsumerDeliver
    \/ ConsumerAck

SpecRace == InitRace /\ [][NextRace]_vars

\* The other browsing operations, each alone on the queue.
NextBrowse ==
    \/ SetTargetImei
    \/ ListQueueCommands
    \/ InspectQueueByName
    \/ CheckCommandQueueStatus
    \/ AnalyzeMessageTypes

SpecBrowse == InitPeek /\ [][NextBrowse]_vars

\* ------------------------------------------- a failing basic_nack (cleanup)
\* basic_nack calls that fail during the session.
MaxNackFaults == 2

\* logging.basicConfig(level=logging.INFO, ...): the level of the root logger,
\* which logger = logging.getLogger(__name__) inherits.
ConfiguredLevel == "INFO"

\* The numeric value of a logging level.
LevelNo(level) ==
    CASE level = "DEBUG" -> 10
      [] level = "INFO" -> 20
      [] level = "WARNING" -> 30
      [] level = "ERROR" -> 40

\* Logger.isEnabledFor: a record is emitted when its level reaches the
\* configured level.
Visible(level) == LevelNo(level) >= LevelNo(ConfiguredLevel)

\* except Exception as e: logger.debug(f"Error requeuing message ...")
NackFailureLevel == "DEBUG"

\* A cleanup loop that a raising basic_nack would end: the failure is logged
\* and no further message is negatively acknowledged.
PeekNackFails_stops ==
    /\ pc = "peek_cleanup"
    /\ Cardinality(logged) < MaxNackFaults
    /\ LET order == RequeueOrder(messages_to_requeue)
           k == Len(nacked)
       IN  /\ k < Len(order)
           /\ nacked' = Append(nacked, order[k + 1])
           /\ logged' = logged \cup
                 {[level |-> NackFailureLevel, msg |-> "error_requeuing",
                   tag |-> order[k + 1]]}
    /\ pc' = "peek_end"
    /\ UNCHANGED << queue, unacked, consumerVars, target_imei, op, localVars,
                    displayed, log, gets, gotNone, fetched, queue0, connVars, discVars, sendVars >>
    /\ UNCHANGED laterVars

\* One iteration of the cleanup loop in which basic_nack raises: the handler
\* logs the failure and the loop goes on; the message stays unacknowledged.
PeekNackFails ==
    /\ pc = "peek_cleanup"
    /\ Cardinality(logged) < MaxNackFaults
    /\ LET order == RequeueOrder(messages_to_requeue)
           k == Len(nacked)
       IN  /\ k < Len(order)
           /\ nacked' = Append(nacked, order[k + 1])
           /\ logged' = logged \cup
                 {[level |-> NackFailureLevel, msg |-> "error_requeuing",
                   tag |-> order[k + 1]]}
    /\ UNCHANGED << queue, unacked, consumerVars, target_imei, pc, op, localVars,
                    displayed, log, gets, gotNone, fetched, queue0, connVars, discVars, sendVars >>
    /\ UNCHANGED laterVars

\* peek_messages on a channel whose basic_nack may fail.
NextFault ==
    \/ SetTargetImei
    \/ \E lim \in 0..MaxLimit : PeekStart(lim)
    \/ PeekFetch
    \/ PeekNack
    \/ PeekNackFails
    \/ PeekEnd

SpecFault == InitRace /\ [][NextFault]_vars

\* --------------------------------------------- the session (connect, ensure)
InitConn ==
    /\ queue = <<>>
    /\ queue0 = <<>>
    /\ InitTool

NextConn ==
    \/ MainConnect
    \/ \E outcome \in {"refused", "no_channel", "dropped", "ok"} :
          ConnectAttempt(outcome)
    \/ ConnectReport
    \/ \E choice \in {"q", "1", "other"} : ConnectDecide(choice)
    \/ \E name \in EnsuringOps \cup DirectOps : OpBegin(name)
    \/ \E created, stays \in BOOLEAN : EnsureConnection(created, stays)
    \/ \E closes \in BOOLEAN : UseChannel(closes)
    \/ ConnectionLost

SpecConn == InitConn /\ [][NextConn]_vars

\* ---------------------------------------------------------- queue discovery
\* Longest list of queue descriptors in a management response.
MaxDescriptors == 2

\* system_queues: self.data_queue and the known system queues, in order.
SystemQueues ==
    << "device_tcp_data", "device_commands", "system_alerts", "error_queue",
       "dead_letter_queue", "audit_log", "notifications" >>

\* A candidate queue at the broker: absent, or present with its counts.
QueueStates ==
    { [exists |-> FALSE, messages |-> 0, consumers |-> 0],
      [exists |-> TRUE, messages |-> 0, consumers |-> 0],
      [exists |-> TRUE, messages |-> 2, consumers |-> 1] }

\* A queue descriptor of the management response: a JSON object with the
\* keys of has.
Descriptor(has, n, m, c, d) ==
    [has |-> has, name |-> n, messages |-> m, consumers |-> c, durable |-> d,
     auto_delete |-> FALSE]

AllKeys == {"name", "messages", "consumers", "durable", "auto_delete"}

Descriptors ==
    { Descriptor(AllKeys, n, mc[1], mc[2], d) :
        n \in {"device_tcp_data", "350317177240177"},
        mc \in {<<0, 0>>, <<3, 1>>}, d \in BOOLEAN }
    \cup { Descriptor(AllKeys \ {"name"}, "", 3, 1, TRUE) }
    \cup { Descriptor({"name"}, n, 0, 0, FALSE) :
             n \in {"device_tcp_data", "350317177240177"} }

\* The answers of the management endpoint: no answer (or requests is not
\* installed), a status other than 200, or 200 with a list of descriptors.
Responses ==
    { [reachable |-> FALSE, status |-> 0, queues |-> <<>>] }
    \cup { [reachable |-> TRUE, status |-> st, queues |-> <<>>] :
             st \in {204, 401, 500} }
    \cup { [reachable |-> TRUE, status |-> 200, queues |-> qs] :
             qs \in UNION { [1..n -> Descriptors] : n \in 0..MaxDescriptors } }

\* if response.status_code == 200
ManagementOk(m) == m.reachable /\ m.status = 200

\* How the try block of the management query ends: "ok" (it returns the
\* snapshots) or the exception it raises.
ManagementOutcome(m) ==
    IF ~m.reachable THEN "ConnectionError"
    ELSE IF ~ManagementOk(m) THEN "Exception"
    ELSE "ok"

\* except Exception as e
ExceptException(e) == e \in {"Exception", "ConnectionError", "ImportError"}

\* queue.get(key, default)
Get(d, key, default) == IF key \in d.has THEN d[key] ELSE default

\* The snapshot appended for a descriptor of the response.
DescriptorSnapshot_noCounts(d) ==
    [name |-> Get(d, "name", "Unknown"), messages |-> 0, consumers |-> 0,
     durable |-> Get(d, "durable", FALSE),
     auto_delete |-> Get(d, "auto_delete", FALSE)]
DescriptorSnapshot(d) ==
    [name |-> Get(d, "name", "Unknown"),
     messages |-> Get(d, "messages", 0),
     consumers |-> Get(d, "consumers", 0),
     durable |-> Get(d, "durable", FALSE),
     auto_delete |-> Get(d, "auto_delete", FALSE)]

\* for queue in queues_data: queues_found.append({...})
ManagementSnapshots(qs) == [k \in 1..Len(qs) |-> DescriptorSnapshot(qs[k])]

\* The snapshot appended for a candidate the passive declare found.
ProbeSnapshot(name, q) ==
    [name |-> name, messages |-> q.messages, consumers |-> q.consumers,
     durable |-> TRUE, auto_delete |-> FALSE]

\* The probe loop from candidate k on.  A passive declare of a queue that
\* does not exist raises and the broker closes the channel; on a closed
\* channel queue_declare raises; the handler goes on with the next candidate.
RECURSIVE ProbeLoop(_, _, _)
ProbeLoop(b, k, r) ==
    IF k > Len(SystemQueues) THEN r
    ELSE LET name == SystemQueues[k] IN
         IF name \in r.discovered THEN ProbeLoop(b, k + 1, r)
         ELSE IF ~r.open
           THEN ProbeLoop(b, k + 1, [r EXCEPT !.probes = @ + 1])
         ELSE IF ~b[name].exists
           THEN ProbeLoop(b, k + 1,
                          [r EXCEPT !.probes = @ + 1, !.open = FALSE])
         ELSE ProbeLoop(b, k + 1,
                        [r EXCEPT !.probes = @ + 1,
                                  !.discovered = @ \cup {name},
                                  !.found = Append(@, ProbeSnapshot(name, b[name]))])

\* What the fallback logs after the probe loop.
FallbackReports_infoOnly(found) ==
    IF found = <<>>
      THEN {[level |-> "WARNING", msg |-> "no_queues_discovered", tag |-> 0]}
      ELSE {[level |-> "INFO", msg |-> "found_using_fallback", tag |-> 0]}
FallbackReports(found) ==
    IF found = <<>>
      THEN {[level |-> "WARNING", msg |-> "no_queues_discovered", tag |-> 0]}
      ELSE {[level |-> "INFO", msg |-> "found_using_fallback", tag |-> 0],
            [level |-> "WARNING", msg |-> "fallback_may_miss_queues", tag |-> 0]}

\* _discover_queues_smart, called with an open channel.
DiscoverQueuesSmart ==
    /\ pc = "idle"
    /\ channel.open
    /\ op' = "discover"
    /\ IF ManagementOutcome(mgmt) = "ok"
         THEN /\ queues_found' = ManagementSnapshots(mgmt.queues)
              /\ probes' = 0
              /\ disc_exc' = "none"
              /\ logged' =
                   {[level |-> "INFO", msg |-> "management_available", tag |-> 0]}
              /\ UNCHANGED channel
         ELSE IF ~ExceptException(ManagementOutcome(mgmt))
         THEN /\ queues_found' = <<>>
              /\ probes' = 0
              /\ disc_exc' = ManagementOutcome(mgmt)
              /\ logged' = {}
              /\ UNCHANGED channel
         ELSE LET r == ProbeLoop(broker_queues, 1,
                           [open |-> channel.open, probes |-> 0,
                            discovered |-> {}, found |-> <<>>])
              IN  /\ queues_found' = r.found
                  /\ probes' = r.probes
                  /\ channel' = [channel EXCEPT !.open = r.open]
                  /\ disc_exc' = "none"
                  /\ logged' =
                       {[level |-> "DEBUG", msg |-> "management_not_available",
                         tag |-> 0],
                        [level |-> "INFO", msg |-> "using_fallback", tag |-> 0]}
                       \cup FallbackReports(r.found)
    /\ UNCHANGED << browseVars, pc, log, connection, conns_open, conns_made,
                    chans_made, failed, reported, decided, last_choice,
                    last_attempt, connect_result, caller, conn0, chan0,
                    chan_failed, ensured, use, mgmt, broker_queues, sendVars >>
    /\ UNCHANGED laterVars

\* The caller has called ensure_connection: one open connection and channel.
InitDiscover ==
    /\ queue = <<>>
    /\ queue0 = <<>>
    /\ InitLocal
    /\ InitConnLocals
    /\ connection = [id |-> 1, open |-> TRUE]
    /\ channel = [id |-> 1, conn |-> 1, open |-> TRUE]
    /\ conns_open = {1}
    /\ conns_made = 1
    /\ chans_made = 1
    /\ mgmt \in Responses
    /\ broker_queues \in [{ SystemQueues[k] : k \in 1..Len(SystemQueues) } -> QueueStates]
    /\ ManagementOk(mgmt) =>
          \E q \in QueueStates :
             \A k \in 1..Len(SystemQueues) : broker_queues[SystemQueues[k]] = q
    /\ queues_found = <<>>
    /\ probes = 0
    /\ disc_exc = "none"
    /\ InitNoSend
    /\ InitLater

NextDiscover == DiscoverQueuesSmart

SpecDiscover == InitDiscover /\ [][NextDiscover]_vars

\* --------------------------------------------------------------- send_command
\* Longest command queue, and most uuid4 values minted, in a session.
MaxCommands == 2
MaxListed == 2
MaxListing == 11

\* The command texts the menus send.
Commands == {"getinfo", "getver"}

\* command_id: None, a value the caller gives, or the k-th uuid4 value.
NoCommandId == [kind |-> "none", n |-> 0]
GivenId == [kind |-> "given", n |-> 1]
Uuid4_fixed(k) == [kind |-> "uuid4", n |-> 1]
Uuid4(k) == [kind |-> "uuid4", n |-> k]

\* The message dict of send_command.
Message(cid, text) ==
    [command_id |-> cid, command |-> text, timestamp |-> "now",
     source |-> "command_sender"]

\* json.dumps(message): the body is UTF-8 text of a JSON object with the
\* keys of the dict.
JsonDumps(msg) ==
    [utf8 |-> TRUE, json |-> "object", type |-> "absent", imei |-> "absent",
     command_id |-> msg.command_id, command |-> msg.command,
     timestamp |-> msg.timestamp, source |-> msg.source]

\* The channel calls of send_command, in program order.
SendOrder_publishFirst == << "send_publish", "send_declare", "send_passive" >>
SendOrder == << "send_declare", "send_publish", "send_passive" >>

\* The statement after the channel call at position p.
StepAfter(p) ==
    LET k == CHOOSE j \in 1..Len(SendOrder) : SendOrder[j] = p
    IN  IF k = Len(SendOrder) THEN "send_return" ELSE SendOrder[k + 1]

\* A record of a channel call.
Call(name, durable, passive, mode) ==
    [call |-> name, durable |-> durable, passive |-> passive,
     delivery_mode |-> mode]

\* The default exchange appends the message to the queue named by the
\* routing key.
Enqueue_front(q, m) == <<m>> \o q
Enqueue(q, m) == Append(q, m)

\* except Exception as e: logger.error(...); return False
SendRaised ==
    /\ send_result' = "false"
    /\ log' = log \cup {"failed_to_send"}
    /\ pc' = "idle"

\* The channel call returned: the next statement, or return True.
SendGoesOn ==
    IF StepAfter(pc) = "send_return"
      THEN send_result' = "true" /\ pc' = "idle"
      ELSE pc' = StepAfter(pc) /\ UNCHANGED send_result

\* send_command(imei, command, command_id) is called.
SendStart(text, cid) ==
    /\ pc = "idle"
    /\ Len(cmd_queue) < MaxCommands
    /\ cid = NoCommandId => uuid_next < MaxCommands
    /\ op' = "send_command"
    /\ arg_id' = cid
    /\ uuid_next' = IF cid = NoCommandId THEN uuid_next + 1 ELSE uuid_next
    /\ sent' = Message(IF cid = NoCommandId THEN Uuid4(uuid_next + 1) ELSE cid, text)
    /\ calls' = <<>>
    /\ send_result' = "none"
    /\ depth0' = Len(cmd_queue)
    /\ depth_reported' = 0
    /\ log' = {}
    /\ pc' = SendOrder[1]
    /\ UNCHANGED << browseVars, faultVars, connVars, discVars, cmd_state,
                    cmd_queue >>
    /\ UNCHANGED laterVars

\* self.channel.queue_declare(queue=imei, durable=True)
SendDeclare ==
    /\ pc = "send_declare"
    /\ calls' = Append(calls, Call("queue_declare", TRUE, FALSE, 0))
    /\ IF ~channel.open
         THEN SendRaised /\ UNCHANGED << channel, cmd_state >>
       ELSE IF cmd_state = "transient"
         THEN /\ SendRaised
              /\ channel' = [channel EXCEPT !.open = FALSE]
              /\ UNCHANGED cmd_state
       ELSE /\ cmd_state' = "durable"
            /\ SendGoesOn
            /\ UNCHANGED << channel, log >>
    /\ UNCHANGED << browseVars, op, faultVars, connection, conns_open,
                    conns_made, chans_made, failed, reported, decided,
                    last_choice, last_attempt, connect_result, caller, conn0,
                    chan0, chan_failed, ensured, use, discVars, cmd_queue, sent,
                    depth0, depth_reported, uuid_next, arg_id >>
    /\ UNCHANGED laterVars

\* self.channel.basic_publish(exchange="", routing_key=imei, body=..., delivery_mode=2)
SendPublish ==
    /\ pc = "send_publish"
    /\ calls' = Append(calls, Call("basic_publish", FALSE, FALSE, 2))
    /\ IF ~channel.open
         THEN SendRaised /\ UNCHANGED cmd_queue
       ELSE /\ cmd_queue' =
                 IF cmd_state = "absent" THEN cmd_queue
                 ELSE Enqueue(cmd_queue,
                              [body |-> JsonDumps(sent), delivery_mode |-> 2])
            /\ SendGoesOn
            /\ log' = log \cup {"command_sent"}
    /\ UNCHANGED << browseVars, op, faultVars, connVars, discVars, cmd_state,
                    sent, depth0, depth_reported, uuid_next, arg_id >>
    /\ UNCHANGED laterVars

\* queue_info = self.channel.queue_declare(queue=imei, passive=True)
SendPassive ==
    /\ pc = "send_passive"
    /\ calls' = Append(calls, Call("queue_declare", FALSE, TRUE, 0))
    /\ IF ~channel.open
         THEN SendRaised /\ UNCHANGED << channel, depth_reported >>
       ELSE IF cmd_state = "absent"
         THEN /\ SendRaised
              /\ channel' = [channel EXCEPT !.open = FALSE]
              /\ UNCHANGED depth_reported
       ELSE /\ depth_reported' = Len(cmd_queue)
            /\ SendGoesOn
            /\ log' = log \cup {"queue_status"}
            /\ UNCHANGED channel
    /\ UNCHANGED << browseVars, op, faultVars, connection, conns_open,
                    conns_made, chans_made, failed, reported, decided,
                    last_choice, last_attempt, connect_result, caller, conn0,
                    chan0, chan_failed, ensured, use, discVars, cmd_state,
                    cmd_queue, sent, depth0, uuid_next, arg_id >>
    /\ UNCHANGED laterVars

\* The broker closes the channel, at any time.
ChannelDrops ==
    /\ channel.open
    /\ channel' = [channel EXCEPT !.open = FALSE]
    /\ UNCHANGED << browseVars, pc, op, log, faultVars, connection, conns_open,
                    conns_made, chans_made, failed, reported, decided,
                    last_choice, last_attempt, connect_result, caller, conn0,
                    chan0, chan_failed, ensured, use, discVars, sendVars >>
    /\ UNCHANGED laterVars

\* Between two commands an operation that calls ensure_connection recreates
\* the channel.
RecreateChannel ==
    /\ pc = "idle"
    /\ EnsurePlan(connection, channel) = "channel"
    /\ chans_made < MaxChannels
    /\ channel' = [id |-> chans_made + 1, conn |-> connection.id, open |-> TRUE]
    /\ chans_made' = chans_made + 1
    /\ UNCHANGED << browseVars, pc, op, log, faultVars, connection, conns_open,
                    conns_made, failed, reported, decided, last_choice,
                    last_attempt, connect_result, caller, conn0, chan0,
                    chan_failed, ensured, use, discVars, sendVars >>
    /\ UNCHANGED laterVars

\* main has connected; the device's queue does not exist, or exists durable
\* or not durable, and is empty.
InitSend ==
    /\ queue = <<>>
    /\ queue0 = <<>>
    /\ InitLocal
    /\ InitConnLocals
    /\ InitNoDiscovery
    /\ connection = [id |-> 1, open |-> TRUE]
    /\ channel = [id |-> 1, conn |-> 1, open |-> TRUE]
    /\ conns_open = {1}
    /\ conns_made = 1
    /\ chans_made = 1
    /\ cmd_state \in {"absent", "durable", "transient"}
    /\ cmd_queue = <<>>
    /\ sent = Message(NoCommandId, "none")
    /\ calls = <<>>
    /\ send_result = "none"
    /\ depth0 = 0
    /\ depth_reported = 0
    /\ uuid_next = 0
    /\ arg_id = [kind |-> "none", n |-> 0]
    /\ InitLater

NextSend ==
    \/ \E text \in Commands, cid \in {NoCommandId, GivenId} : SendStart(text, cid)
    \/ SendDeclare
    \/ SendPublish
    \/ SendPassive
    \/ ChannelDrops
    \/ RecreateChannel

SpecSend == InitSend /\ [][NextSend]_vars

\* ------------------------------------------------- operations on a named queue
\* queue_declare(queue=name, passive=True): whether the queue was found, and
\* whether it exists afterwards.
PassiveDeclare_creates(exists) == [found |-> TRUE, exists_after |-> TRUE]
PassiveDeclare(exists) == [found |-> exists, exists_after |-> exists]

\* except Exception: every exception but KeyboardInterrupt and SystemExit.
CaughtByExcept(e) == e \notin {"KeyboardInterrupt", "SystemExit"}

\* What the operator types at the confirmation prompt of purge_queue.
Answers == {"yes", "y", " YES ", "Y", "no", "", "yes please", "n"}

\* .strip().lower()
StripLower(a) ==
    CASE a = " YES " -> "yes"
      [] a = "Y" -> "y"
      [] OTHER -> a

\* if confirm in ["yes", "y"]
Affirmative_nonEmpty(c) == c # ""
Affirmative(c) == c \in {"yes", "y"}

\* The channel after a passive declare: the broker closes it when the queue
\* was not found.
AfterDeclare(ch, found) == IF found THEN ch ELSE [ch EXCEPT !.open = FALSE]

\* The local state of a browsing operation that fetched nothing.
NothingFetched ==
    /\ fetched' = <<>>
    /\ displayed' = <<>>
    /\ nacked' = <<>>
    /\ gets' = 0
    /\ gotNone' = FALSE
    /\ messages_to_requeue' = <<>>
    /\ UNCHANGED << queue, unacked >>

\* check_queue_status(imei): uses self.channel as it is.
CheckQueueStatus ==
    /\ pc = "idle"
    /\ op' = "check_queue_status"
    /\ queue0' = queue
    /\ message_count' = Len(queue)
    /\ NothingFetched
    /\ IF ~channel.open
         THEN /\ exc' = "ChannelWrongStateError"
              /\ log' = {"error_checking_status"}
              /\ UNCHANGED << channel, queue_exists >>
         ELSE LET d == PassiveDeclare(queue_exists) IN
              /\ queue_exists' = d.exists_after
              /\ channel' = AfterDeclare(channel, d.found)
              /\ exc' = IF d.found THEN "none" ELSE "ChannelClosedByBroker"
              /\ log' = IF d.found THEN {"queue_status"}
                                   ELSE {"error_checking_status"}
    /\ op_result' = IF CaughtByExcept(exc') THEN "none" ELSE "raised"
    /\ UNCHANGED << consumerVars, target_imei, pc, limit, i, messages_shown,
                    faultVars, connection, conns_open, conns_made, chans_made,
                    failed, reported, decided, last_choice, last_attempt,
                    connect_result, caller, conn0, chan0, chan_failed, ensured,
                    use, discVars, sendVars, answer, statusVars,
                    monVars,
                    listVars,
                    searchVars >>

\* inspect_queue_by_name(queue_name): ensure_connection on an open connection
\* (the channel is recreated when it is closed), the passive declare, and the
\* sample loop.
InspectByName ==
    /\ pc = "idle"
    /\ connection.open
    /\ ~channel.open => chans_made < MaxChannels
    /\ op' = "inspect"
    /\ queue0' = queue
    /\ message_count' = Len(queue)
    /\ chans_made' = IF channel.open THEN chans_made ELSE chans_made + 1
    /\ LET ch == IF channel.open THEN channel
                 ELSE [id |-> chans_made + 1, conn |-> connection.id,
                       open |-> TRUE]
           d == PassiveDeclare(queue_exists)
           r == IF queue = <<>> THEN LoopStart(queue) ELSE InspectResult(queue)
       IN  /\ queue_exists' = d.exists_after
           /\ channel' = AfterDeclare(ch, d.found)
           /\ IF ~d.found
                THEN /\ NothingFetched
                     /\ exc' = "ChannelClosedByBroker"
                     /\ log' = {"not_found_or_not_accessible"}
                ELSE /\ queue' = r.q
                     /\ unacked' = unacked \cup r.un
                     /\ fetched' = r.fetched
                     /\ displayed' = r.displayed
                     /\ nacked' = r.nacked
                     /\ gets' = r.gets
                     /\ gotNone' = r.gotNone
                     /\ messages_to_requeue' = Ids(r.fetched)
                     /\ exc' = r.exc
                     /\ log' = IF r.exc # "none"
                                 THEN {"samples", "not_found_or_not_accessible"}
                               ELSE IF queue = <<>> THEN {"queue_empty"}
                               ELSE {"samples"}
    /\ op_result' = IF exc' = "none" THEN "true"
                    ELSE IF CaughtByExcept(exc') THEN "false"
                    ELSE "raised"
    /\ UNCHANGED << consumerVars, target_imei, pc, limit, i, messages_shown,
                    faultVars, connection, conns_open, conns_made, failed,
                    reported, decided, last_choice, last_attempt,
                    connect_result, caller, conn0, chan0, chan_failed, ensured,
                    use, discVars, sendVars, answer, statusVars,
                    monVars,
                    listVars,
                    searchVars >>

\* purge_queue(imei), with what the operator types at the prompt.
PurgeQueue(typed) ==
    /\ pc = "idle"
    /\ op' = "purge"
    /\ queue0' = queue
    /\ message_count' = Len(queue)
    /\ fetched' = <<>>
    /\ displayed' = <<>>
    /\ nacked' = <<>>
    /\ gets' = 0
    /\ gotNone' = FALSE
    /\ messages_to_requeue' = <<>>
    /\ IF ~channel.open
         THEN /\ exc' = "ChannelWrongStateError"
              /\ log' = {"error_purging"}
              /\ answer' = "none"
              /\ UNCHANGED << channel, queue_exists, queue >>
         ELSE LET d == PassiveDeclare(queue_exists) IN
              /\ queue_exists' = d.exists_after
              /\ channel' = AfterDeclare(channel, d.found)
              /\ IF ~d.found
                   THEN /\ exc' = "ChannelClosedByBroker"
                        /\ log' = {"error_purging"}
                        /\ answer' = "none"
                        /\ UNCHANGED queue
                 ELSE IF Len(queue) = 0
                   THEN /\ exc' = "none"
                        /\ log' = {"already_empty"}
                        /\ answer' = "none"
                        /\ UNCHANGED queue
                 ELSE /\ exc' = "none"
                      /\ answer' = typed
                      /\ IF Affirmative(StripLower(typed))
                           THEN queue' = <<>> /\ log' = {"purged"}
                           ELSE UNCHANGED queue /\ log' = {"purge_cancelled"}
    /\ op_result' = IF CaughtByExcept(exc') THEN "none" ELSE "raised"
    /\ UNCHANGED << unacked, consumerVars, target_imei, pc, limit, i,
                    messages_shown, faultVars, connection, conns_open,
                    conns_made, chans_made, failed, reported, decided,
                    last_choice, last_attempt, connect_result, caller, conn0,
                    chan0, chan_failed, ensured, use, discVars, sendVars,
                    statusVars,
                    monVars, listVars,
                    searchVars >>

\* The bodies of the named queue: decodable, and one that is not UTF-8.
OpsBodies == RaceBodies \cup {BadUtf8Body}

\* main has connected; the named queue does not exist, or exists with some
\* messages.
InitOps ==
    /\ queue_exists \in BOOLEAN
    /\ queue \in IF queue_exists
                   THEN UNION { QueuesOver(OpsBodies, n) : n \in 0..MaxQueue }
                   ELSE { <<>> }
    /\ queue0 = queue
    /\ answer = "none"
    /\ op_result = "none"
    /\ InitNoMonitor
    /\ InitNoList
    /\ InitNoSearch
    /\ InitNoStatus
    /\ InitLocal
    /\ InitConnLocals
    /\ InitNoDiscovery
    /\ InitNoSend
    /\ connection = [id |-> 1, open |-> TRUE]
    /\ channel = [id |-> 1, conn |-> 1, open |-> TRUE]
    /\ conns_open = {1}
    /\ conns_made = 1
    /\ chans_made = 1

NextOps ==
    \/ CheckQueueStatus
    \/ InspectByName
    \/ \E typed \in Answers : PurgeQueue(typed)

SpecOps == InitOps /\ [][NextOps]_vars

\* ------------------------------------------------------------ monitor_realtime
\* The callback of the monitor for one delivered body: "ack_skip" (acknowledge
\* and return), "ack_shown" (display, then acknowledge), or the exception that
\* leaves the callback before the acknowledgment.
CallbackOutcome(body, target) ==
    IF target # NoImei /\ JsonLoads(body) = "JSONDecodeError" THEN "ack_skip"
    ELSE IF target # NoImei /\ JsonLoads(body) # "ok" THEN JsonLoads(body)
    ELSE IF target # NoImei /\ body.json # "object" THEN "AttributeError"
    ELSE IF target # NoImei /\ DictGet(body, "imei", "UNKNOWN") # target
      THEN "ack_skip"
    ELSE IF DisplayMessage(body).raised # "none" THEN DisplayMessage(body).raised
    ELSE "ack_shown"

\* self.channel.stop_consuming(): every consumer of the channel is cancelled.
StopConsuming_keeps(cons, ch) == cons
StopConsuming(cons, ch) == { c \in cons : c.chan # ch.id }

\* The broker forgets the consumers of a channel that is closed.
ChannelClosed(cons, ch) == { c \in cons : c.chan # ch.id }

\* monitor_realtime up to start_consuming: ensure_connection on an open
\* connection (the channel is recreated when it is closed), then basic_consume
\* on the data queue, which raises when the queue does not exist.
MonitorStart ==
    /\ pc = "idle"
    /\ connection.open
    /\ ~channel.open => chans_made < MaxChannels
    /\ op' = "monitor"
    /\ queue0' = queue
    /\ message_count' = Len(queue)
    /\ fetched' = <<>>
    /\ displayed' = <<>>
    /\ nacked' = <<>>
    /\ gets' = 0
    /\ gotNone' = FALSE
    /\ messages_to_requeue' = <<>>
    /\ mon_acked' = <<>>
    /\ chans_made' = IF channel.open THEN chans_made ELSE chans_made + 1
    /\ LET ch == IF channel.open THEN channel
                 ELSE [id |-> chans_made + 1, conn |-> connection.id,
                       open |-> TRUE]
       IN  IF queue_exists
             THEN /\ channel' = ch
                  /\ consumers' = consumers \cup {[chan |-> ch.id]}
                  /\ exc' = "none"
                  /\ log' = {"monitoring"}
                  /\ pc' = "monitoring"
             ELSE /\ channel' = [ch EXCEPT !.open = FALSE]
                  /\ exc' = "ChannelClosedByBroker"
                  /\ log' = {"monitoring"}
                  /\ pc' = "monitor_stop"
                  /\ UNCHANGED consumers
    /\ UNCHANGED << queue, unacked, consumerVars, target_imei, limit, i,
                    messages_shown, faultVars, connection, conns_open,
                    conns_made, failed, reported, decided, last_choice,
                    last_attempt, connect_result, caller, conn0, chan0,
                    chan_failed, ensured, use, discVars, sendVars, statusVars,
                    opsVars, listVars,
                    searchVars >>

\* The broker delivers the head of the queue and message_callback runs.
MonitorDeliver ==
    /\ pc = "monitoring"
    /\ queue # <<>>
    /\ LET m == Head(queue)
           o == CallbackOutcome(m.body, target_imei)
       IN  /\ queue' = Tail(queue)
           /\ fetched' = Append(fetched, m)
           /\ IF o = "ack_skip"
                THEN /\ mon_acked' = Append(mon_acked, m.id)
                     /\ UNCHANGED << unacked, displayed, exc, pc >>
              ELSE IF o = "ack_shown"
                THEN /\ mon_acked' = Append(mon_acked, m.id)
                     /\ displayed' = Append(displayed,
                            [num |-> Len(displayed) + 1, id |-> m.id,
                             cls |-> DisplayMessage(m.body).cls])
                     /\ UNCHANGED << unacked, exc, pc >>
              ELSE /\ unacked' = unacked \cup {m}
                   /\ exc' = o
                   /\ pc' = "monitor_stop"
                   /\ UNCHANGED << mon_acked, displayed >>
    /\ UNCHANGED << consumerVars, target_imei, op, limit, message_count, i,
                    messages_shown, messages_to_requeue, log, nacked, gets,
                    gotNone, queue0, faultVars, connVars, discVars, sendVars,
                    statusVars,
                    opsVars, consumers, listVars,
                    searchVars >>

\* The operator presses Ctrl+C while start_consuming waits.
MonitorInterrupt ==
    /\ pc = "monitoring"
    /\ exc' = "KeyboardInterrupt"
    /\ pc' = "monitor_stop"
    /\ UNCHANGED << queue, unacked, consumerVars, target_imei, op, limit,
                    message_count, i, messages_shown, messages_to_requeue,
                    displayed, log, nacked, gets, gotNone, fetched, queue0,
                    faultVars, connVars, discVars, sendVars, statusVars,
                    opsVars, monVars,
                    listVars,
                    searchVars >>

\* The broker closes the channel while start_consuming waits: it forgets the
\* channel's consumers and requeues its unacknowledged messages;
\* start_consuming raises.
MonitorChannelLost ==
    /\ pc = "monitoring"
    /\ channel.open
    /\ channel' = [channel EXCEPT !.open = FALSE]
    /\ consumers' = ChannelClosed(consumers, channel)
    /\ exc' = "ChannelClosedByBroker"
    /\ pc' = "monitor_stop"
    /\ UNCHANGED << queue, unacked, consumerVars, target_imei, op, limit,
                    message_count, i, messages_shown, messages_to_requeue,
                    displayed, log, nacked, gets, gotNone, fetched, queue0,
                    faultVars, connection, conns_open, conns_made, chans_made,
                    failed, reported, decided, last_choice, last_attempt,
                    connect_result, caller, conn0, chan0, chan_failed, ensured,
                    use, discVars, sendVars, statusVars,
                    opsVars, mon_acked, listVars,
                    searchVars >>

\* The handlers of monitor_realtime: except KeyboardInterrupt and except
\* Exception both call stop_consuming when the channel is open.
MonitorStop ==
    /\ pc = "monitor_stop"
    /\ consumers' = IF channel.open THEN StopConsuming(consumers, channel)
                    ELSE consumers
    /\ log' = log \cup (IF exc = "KeyboardInterrupt" THEN {"stopping_monitor"}
                        ELSE {"error_in_monitoring"})
    /\ pc' = "idle"
    /\ UNCHANGED << queue, unacked, consumerVars, target_imei, op, limit,
                    message_count, i, messages_shown, messages_to_requeue, exc,
                    displayed, nacked, gets, gotNone, fetched, queue0,
                    faultVars, connVars, discVars, sendVars, statusVars,
                    opsVars,
                    mon_acked, listVars,
                    searchVars >>

\* main has connected; the data queue holds some messages, or does not exist.
InitMonitor ==
    /\ queue_exists \in BOOLEAN
    /\ queue \in IF queue_exists
                   THEN UNION { QueuesOver(Bodies, n) : n \in 0..MaxQueue }
                   ELSE { <<>> }
    /\ queue0 = queue
    /\ answer = "none"
    /\ op_result = "none"
    /\ InitNoMonitor
    /\ InitNoList
    /\ InitNoSearch
    /\ InitNoStatus
    /\ InitLocal
    /\ InitConnLocals
    /\ InitNoDiscovery
    /\ InitNoSend
    /\ connection = [id |-> 1, open |-> TRUE]
    /\ channel = [id |-> 1, conn |-> 1, open |-> TRUE]
    /\ conns_open = {1}
    /\ conns_made = 1
    /\ chans_made = 1

NextMonitor ==
    \/ SetTargetImei
    \/ MonitorStart
    \/ MonitorDeliver
    \/ MonitorInterrupt
    \/ MonitorChannelLost
    \/ MonitorStop

SpecMonitor == InitMonitor /\ [][NextMonitor]_vars

\* ------------------------------------------------------------ list_all_queues
\* The characters of the queue names and search terms of the model.
Chars(s) ==
    CASE s = "350317177240177" -> << "3", "5", "0", "3", "1", "7", "1", "7",
        "7", "2", "4", "0", "1", "7", "7" >>
      [] s = "35031717724017" -> << "3", "5", "0", "3", "1", "7", "1", "7",
          "7", "2", "4", "0", "1", "7" >>
      [] s = "3503171772401777" -> << "3", "5", "0", "3", "1", "7", "1", "7",
          "7", "2", "4", "0", "1", "7", "7", "7" >>
      [] s = "35031717724017A" -> << "3", "5", "0", "3", "1", "7", "1", "7",
          "7", "2", "4", "0", "1", "7", "A" >>
      [] s = "device_tcp_data" -> << "d", "e", "v", "i", "c", "e", "_", "t",
          "c", "p", "_", "d", "a", "t", "a" >>
      [] s = "device_commands" -> << "d", "e", "v", "i", "c", "e", "_", "c",
          "o", "m", "m", "a", "n", "d", "s" >>
      [] s = "system_alerts" -> << "s", "y", "s", "t", "e", "m", "_", "a",
          "l", "e", "r", "t", "s" >>
      [] s = "error_queue" -> << "e", "r", "r", "o", "r", "_", "q", "u", "e",
          "u", "e" >>
      [] s = "dead_letter_queue" -> << "d", "e", "a", "d", "_", "l", "e", "t",
          "t", "e", "r", "_", "q", "u", "e", "u", "e" >>
      [] s = "audit_log" -> << "a", "u", "d", "i", "t", "_", "l", "o", "g" >>
      [] s = "notifications" -> << "n", "o", "t", "i", "f", "i", "c", "a",
          "t", "i", "o", "n", "s" >>
      [] s = "Unknown" -> << "U", "n", "k", "n", "o", "w", "n" >>
      [] s = "" -> << >>
      [] s = "Device_3503" -> << "D", "e", "v", "i", "c", "e", "_", "3", "5",
          "0", "3" >>
      [] s = "3503" -> << "3", "5", "0", "3" >>
      [] s = "DEVICE" -> << "D", "E", "V", "I", "C", "E" >>
      [] s = "tcp" -> << "t", "c", "p" >>
      [] s = "zzz" -> << "z", "z", "z" >>

Digits == {"0", "1", "2", "3", "4", "5", "6", "7", "8", "9"}

UpperCase ==
    << "A", "B", "C", "D", "E", "F", "G", "H", "I", "J", "K", "L", "M", "N",
        "O", "P", "Q", "R", "S", "T", "U", "V", "W", "X", "Y", "Z" >>
LowerCase ==
    << "a", "b", "c", "d", "e", "f", "g", "h", "i", "j", "k", "l", "m", "n",
        "o", "p", "q", "r", "s", "t", "u", "v", "w", "x", "y", "z" >>

\* str.isdigit(): the string is not empty and every character is a digit.
IsDigit(cs) == cs # <<>> /\ \A k \in 1..Len(cs) : cs[k] \in Digits

\* return queue_name.isdigit() and len(queue_name) == 15
IsImeiFormat_digitsOnly(name) == IsDigit(Chars(name))
IsImeiFormat(name) == IsDigit(Chars(name)) /\ Len(Chars(name)) = ImeiLength

\* The status column of a row.
Status_noBusy(n_messages, n_consumers) ==
    IF n_consumers > 0 THEN "ACTIVE"
    ELSE IF n_messages > 0 THEN "BACKLOG"
    ELSE "IDLE"
Status(n_messages, n_consumers) ==
    IF n_consumers > 0 /\ n_messages > 0 THEN "BUSY"
    ELSE IF n_consumers > 0 THEN "ACTIVE"
    ELSE IF n_messages > 0 THEN "BACKLOG"
    ELSE "IDLE"

\* [q for q in sq if q in keep]
Filter(sq, keep) == SelectSeq(sq, LAMBDA q : q \in keep)

\* The elements of a list.
Elements(sq) == { sq[k] : k \in 1..Len(sq) }

\* q['messages'] > 0 or q['consumers'] > 0
IsActive(q) == q.messages > 0 \/ q.consumers > 0

\* The filter chain of list_all_queues.
FilterQueues(qs, ft, sao) ==
    IF ft = "non-imei"
      THEN Filter(qs, { q \in Elements(qs) : ~IsImeiFormat(q.name) })
    ELSE IF ft = "imei-only"
      THEN Filter(qs, { q \in Elements(qs) : IsImeiFormat(q.name) })
    ELSE IF ft = "active" \/ sao
      THEN Filter(qs, { q \in Elements(qs) : IsActive(q) })
    ELSE qs

\* Tuples compare as in Python: by the first position where they differ.
TupleGreater(a, b) ==
    \E k \in 1..Len(a) : a[k] > b[k] /\ \A j \in 1..(k - 1) : a[j] = b[j]

\* False < True
BoolKey(b) == IF b THEN 1 ELSE 0

\* list.sort(key=..., reverse=True): descending by key; elements with equal
\* keys keep their order.
SortReverse(sq, keys) ==
    LET n == Len(sq)
        Rank(k) == 1 + Cardinality(
            { j \in 1..n : \/ TupleGreater(keys[j], keys[k])
                           \/ keys[j] = keys[k] /\ j < k })
    IN  [p \in 1..n |-> sq[CHOOSE k \in 1..n : Rank(k) = p]]

\* The sort key of list_all_queues.
ListKey_countsOnly(x) == << x.messages, x.consumers >>
ListKey(x) ==
    << BoolKey(x.consumers > 0), BoolKey(x.messages > 0), x.messages,
       x.consumers >>

\* The keys of a list of snapshots.
ListKeys(qs) == [k \in 1..Len(qs) |-> ListKey(qs[k])]

\* What _discover_queues_smart returns for a management answer m and the
\* candidates' states b, and whether the channel is open afterwards.
Discovery(m, b, ch) ==
    IF ManagementOutcome(m) = "ok"
      THEN [found |-> ManagementSnapshots(m.queues), open |-> ch.open,
            probes |-> 0]
      ELSE LET r == ProbeLoop(b, 1, [open |-> ch.open, probes |-> 0,
                                     discovered |-> {}, found |-> <<>>])
           IN  [found |-> r.found, open |-> r.open, probes |-> r.probes]

\* list_all_queues(filter_type, show_active_only) on an open channel.
ListAllQueues(ft, sao) ==
    /\ pc = "idle"
    /\ channel.open
    /\ op' = "list"
    /\ filter_type' = ft
    /\ show_active_only' = sao
    /\ \E d \in {Discovery(mgmt, broker_queues, channel)} :
       \E kept \in {FilterQueues(d.found, ft, sao)} :
       \E sorted \in {SortReverse(kept, ListKeys(kept))} :
           /\ queues_found' = d.found
           /\ probes' = d.probes
           /\ channel' = [channel EXCEPT !.open = d.open]
           /\ listed' = [k \in 1..Len(sorted) |->
                           [queue |-> sorted[k],
                            status |-> Status(sorted[k].messages,
                                              sorted[k].consumers)]]
           /\ list_outcome' = IF d.found = <<>> THEN "no_queues_found"
                              ELSE IF kept = <<>> THEN "none_after_filter"
                              ELSE "table"
    /\ UNCHANGED << browseVars, pc, log, faultVars, connection, conns_open,
                    conns_made, chans_made, failed, reported, decided,
                    last_choice, last_attempt, connect_result, caller, conn0,
                    chan0, chan_failed, ensured, use, mgmt, broker_queues,
                    disc_exc, sendVars, statusVars,
                    opsVars, monVars, searchVars >>

\* A channel whose probe loop closed it is opened again by the next
\* ensure_connection.
ListEnsure ==
    /\ pc = "idle"
    /\ connection.open
    /\ ~channel.open
    /\ chans_made < MaxChannels
    /\ channel' = [id |-> chans_made + 1, conn |-> connection.id, open |-> TRUE]
    /\ chans_made' = chans_made + 1
    /\ op' = "ensure"
    /\ UNCHANGED << browseVars, pc, log, faultVars, connection, conns_open,
                    conns_made, failed, reported, decided, last_choice,
                    last_attempt, connect_result, caller, conn0, chan0,
                    chan_failed, ensured, use, discVars, sendVars, laterVars >>

CandidateNames == { SystemQueues[k] : k \in 1..Len(SystemQueues) }

AbsentQueue == [exists |-> FALSE, messages |-> 0, consumers |-> 0]

FilterTypes == {"all", "active", "imei-only", "non-imei"}

ListNames ==
    { "350317177240177", "35031717724017", "3503171772401777",
      "35031717724017A", "device_tcp_data" }

\* The message and consumer counts of the descriptors.
Counts == {0, 1, 2}

\* The data queue with every pair of counts; the other names idle or busy.
ListDescriptors ==
    { Descriptor(AllKeys, "device_tcp_data", m, c, TRUE) :
        m \in Counts, c \in Counts }
    \cup { Descriptor(AllKeys, n, mc[1], mc[2], TRUE) :
             n \in ListNames, mc \in {<<0, 0>>, <<2, 1>>} }

\* main has connected; the management endpoint answers with some queues, or
\* does not answer and some of the candidates exist.
InitList ==
    /\ queue = <<>>
    /\ queue0 = <<>>
    /\ InitLocal
    /\ InitConnLocals
    /\ connection = [id |-> 1, open |-> TRUE]
    /\ channel = [id |-> 1, conn |-> 1, open |-> TRUE]
    /\ conns_open = {1}
    /\ conns_made = 1
    /\ chans_made = 1
    /\ mgmt \in { [reachable |-> FALSE, status |-> 0, queues |-> <<>>] }
          \cup { [reachable |-> TRUE, status |-> 200, queues |-> qs] :
                   qs \in UNION { [1..n -> ListDescriptors] : n \in 0..MaxListed } }
    /\ broker_queues \in
          IF ManagementOk(mgmt)
            THEN { [n \in CandidateNames |-> AbsentQueue] }
            ELSE { [n \in CandidateNames |->
                      IF n = SystemQueues[1] THEN q1 ELSE q2] :
                   q1 \in QueueStates, q2 \in QueueStates }
    /\ queues_found = <<>>
    /\ probes = 0
    /\ disc_exc = "none"
    /\ InitNoSend
    /\ InitLater

NextList ==
    \/ \E ft \in FilterTypes, sao \in BOOLEAN : ListAllQueues(ft, sao)
    \/ ListEnsure

SpecList == InitList /\ [][NextList]_vars

\* --------------------------------------------- inspect_queues_by_partial_name
\* str.lower() on the characters of a string.
LowerChar(c) ==
    IF \E k \in 1..Len(UpperCase) : UpperCase[k] = c
      THEN LowerCase[CHOOSE k \in 1..Len(UpperCase) : UpperCase[k] = c]
      ELSE c
Lower(cs) == [k \in 1..Len(cs) |-> LowerChar(cs[k])]

\* needle in hay, on strings
Contains(hay, needle) ==
    \E k \in 0..(Len(hay) - Len(needle)) :
        \A j \in 1..Len(needle) : hay[k + j] = needle[j]

\* search_term_lower in q['name'].lower()
Matches_caseSensitive(term, name) == Contains(Chars(name), Chars(term))
Matches(term, name) == Contains(Lower(Chars(name)), Lower(Chars(term)))

\* find_queues_by_partial_name on the discovered snapshots.
FindQueues(found, term) ==
    Filter(found, { q \in Elements(found) : Matches(term, q.name) })

\* The sort key of the matching queues.
MatchKey_none(x) == << 0 >>
MatchKey(x) == << x.messages >>

\* The keys of a list of snapshots.
MatchKeys(qs) == [k \in 1..Len(qs) |-> MatchKey(qs[k])]

\* The answers to the prompt of the disambiguation list, as typed.
Choices == {"0", "a", " A ", "1", " 2", "3", "9", "-1", "x", ""}

\* input(...).strip().lower() on those answers.
ChoiceStripLower(c) == CASE c = " A " -> "a" [] c = " 2" -> "2" [] OTHER -> c

\* int(choice): the number, or ValueError.
ParseInt(c) ==
    CASE c = "1" -> [ok |-> TRUE, n |-> 1]
      [] c = "2" -> [ok |-> TRUE, n |-> 2]
      [] c = "3" -> [ok |-> TRUE, n |-> 3]
      [] c = "9" -> [ok |-> TRUE, n |-> 9]
      [] c = "-1" -> [ok |-> TRUE, n |-> 0 - 1]
      [] OTHER -> [ok |-> FALSE, n |-> 0]

\* What the answer to the prompt selects among n listed queues: "cancel",
\* "all", "one" (with its index), "invalid_choice" or "invalid_input".
Selection(c, n) ==
    IF c = "0" THEN [kind |-> "cancel", index |-> 0]
    ELSE IF c = "a" THEN [kind |-> "all", index |-> 0]
    ELSE IF ~ParseInt(c).ok THEN [kind |-> "invalid_input", index |-> 0]
    ELSE IF 0 <= ParseInt(c).n - 1 /\ ParseInt(c).n - 1 < n
      THEN [kind |-> "one", index |-> ParseInt(c).n]
    ELSE [kind |-> "invalid_choice", index |-> 0]

\* inspect_queue_by_name for each of names in turn; oks[k] tells whether the
\* passive declare of names[k] finds the queue.  ensure_connection opens a
\* new channel when the previous declare closed it.
RECURSIVE InspectEach(_, _, _)
InspectEach(names, oks, r) ==
    IF names = <<>> THEN r
    ELSE LET ch == IF r.channel.open THEN r.channel
                   ELSE [id |-> r.made + 1, conn |-> r.channel.conn,
                         open |-> TRUE]
             made == IF r.channel.open THEN r.made ELSE r.made + 1
         IN  InspectEach(Tail(names), Tail(oks),
                 [channel |-> AfterDeclare(ch, Head(oks)), made |-> made,
                  inspected |-> Append(r.inspected, Head(names)),
                  returned |-> Append(r.returned, Head(oks))])

Names(qs) == [k \in 1..Len(qs) |-> qs[k].name]

\* inspect_queues_by_partial_name(term) up to its return or its prompt,
\* entered with channel ch after made channels.
SearchFrom(term, ch, made) ==
    /\ search_term' = term
    /\ search_choice' = "none"
    /\ discoveries' = 1
    /\ \E d \in {Discovery(mgmt, broker_queues, ch)} :
       \E hits \in {FindQueues(d.found, term)} :
       \E sorted \in {SortReverse(hits, MatchKeys(hits))} :
       \E ok \in BOOLEAN :
       \E r \in {InspectEach(IF Len(sorted) = 1 THEN Names(sorted) ELSE <<>>,
                             << ok >>,
                             [channel |-> [ch EXCEPT !.open = d.open],
                              made |-> made, inspected |-> <<>>,
                              returned |-> <<>>])} :
           /\ Len(sorted) # 1 => ok
           /\ r.made <= MaxChannels
           /\ queues_found' = d.found
           /\ probes' = d.probes
           /\ matching_queues' = sorted
           /\ channel' = r.channel
           /\ chans_made' = r.made
           /\ inspected' = r.inspected
           /\ search_outcome' = IF sorted = <<>> THEN "no_queues_hint"
                                ELSE IF Len(sorted) = 1 THEN "found_one"
                                ELSE "list"
           /\ search_result' = IF sorted = <<>> THEN "False"
                               ELSE IF Len(sorted) > 1 THEN "none"
                               ELSE IF r.returned[1] THEN "True" ELSE "False"
           /\ pc' = IF Len(sorted) > 1 THEN "search_prompt" ELSE "idle"
    /\ UNCHANGED << browseVars, log, faultVars, connection, conns_open,
                    conns_made, failed, reported, decided, last_choice,
                    last_attempt, connect_result, caller, conn0, chan0,
                    chan_failed, ensured, use, mgmt, broker_queues, disc_exc,
                    sendVars, statusVars,
                    opsVars, monVars, listVars >>

\* inspect_queues_by_partial_name(term), called with an open channel.
SearchStart(term) ==
    /\ pc = "idle"
    /\ channel.open
    /\ op' = "search"
    /\ SearchFrom(term, channel, chans_made)

\* Whether a queue of this name exists at the broker.
QueueExistsNow(name) ==
    \/ ManagementOk(mgmt) /\ \E k \in 1..Len(mgmt.queues) :
          "name" \in mgmt.queues[k].has /\ mgmt.queues[k].name = name
    \/ name \in DOMAIN broker_queues /\ broker_queues[name].exists

\* The exact-match check of the menu: queue_declare(search_term, passive=True)
\* returns when the queue exists and raises otherwise.
ExactCheck_never(name) == FALSE
ExactCheck(name) == QueueExistsNow(name)

\* Choice 5 of the queue operations menu with a search term, up to the
\* return or the prompt of the partial-name search.
MenuInspect(term) ==
    /\ pc = "idle"
    /\ channel.open
    /\ op' = "menu_inspect"
    /\ IF ExactCheck(term)
         THEN /\ search_term' = term
              /\ search_choice' = "none"
              /\ discoveries' = 0
              /\ matching_queues' = <<>>
              /\ search_outcome' = "exact_match"
              /\ inspected' = << term >>
              /\ \E ok \in BOOLEAN :
                    /\ search_result' = IF ok THEN "True" ELSE "False"
                    /\ channel' = AfterDeclare(channel, ok)
              /\ UNCHANGED << browseVars, pc, log, faultVars, connection,
                              conns_open, conns_made, chans_made, failed,
                              reported, decided, last_choice, last_attempt,
                              connect_result, caller, conn0, chan0,
                              chan_failed, ensured, use, discVars, sendVars,
                              statusVars,
                              opsVars, monVars, listVars >>
         ELSE /\ chans_made < MaxChannels
              /\ SearchFrom(term,
                            [id |-> chans_made + 1, conn |-> connection.id,
                             open |-> TRUE],
                            chans_made + 1)

\* The operator answers the prompt of the disambiguation list.
SearchChoose(typed) ==
    /\ pc = "search_prompt"
    /\ search_choice' = typed
    /\ \E sel \in {Selection(ChoiceStripLower(typed), Len(matching_queues))} :
       \E names \in {IF sel.kind = "all" THEN Names(matching_queues)
                     ELSE IF sel.kind = "one"
                       THEN << matching_queues[sel.index].name >>
                     ELSE <<>>} :
       \E oks \in [1..Len(names) -> BOOLEAN] :
       \E r \in {InspectEach(names, oks,
                             [channel |-> channel, made |-> chans_made,
                              inspected |-> <<>>, returned |-> <<>>])} :
           /\ r.made <= MaxChannels
           /\ channel' = r.channel
           /\ chans_made' = r.made
           /\ inspected' = r.inspected
           /\ search_outcome' = sel.kind
           /\ search_result' = IF sel.kind = "all" THEN "True"
                               ELSE IF sel.kind = "one" /\ r.returned[1]
                                 THEN "True"
                               ELSE "False"
    /\ pc' = "idle"
    /\ UNCHANGED << browseVars, op, log, faultVars, connection, conns_open,
                    conns_made, failed, reported, decided, last_choice,
                    last_attempt, connect_result, caller, conn0, chan0,
                    chan_failed, ensured, use, discVars, sendVars, statusVars,
                    opsVars,
                    monVars, listVars, search_term, matching_queues,
                    discoveries >>

SearchTerms == {"3503", "DEVICE", "tcp", "zzz"}

\* What the operator types at choice 5: a whole name or a part of one.
MenuTerms == {"350317177240177", "device_tcp_data", "3503", "zzz"}

SearchNames ==
    { "350317177240177", "35031717724017A", "device_tcp_data", "Device_3503" }

SearchDescriptors ==
    { Descriptor(AllKeys, n, m, 0, TRUE) : n \in SearchNames, m \in {0, 2} }

\* main has connected; the management endpoint answers with some queues, or
\* does not answer and some of the candidates exist.
InitSearch ==
    /\ queue = <<>>
    /\ queue0 = <<>>
    /\ InitLocal
    /\ InitConnLocals
    /\ connection = [id |-> 1, open |-> TRUE]
    /\ channel = [id |-> 1, conn |-> 1, open |-> TRUE]
    /\ conns_open = {1}
    /\ conns_made = 1
    /\ chans_made = 1
    /\ mgmt \in { [reachable |-> FALSE, status |-> 0, queues |-> <<>>] }
          \cup { [reachable |-> TRUE, status |-> 200, queues |-> qs] :
                   qs \in UNION { [1..n -> SearchDescriptors] :
                                    n \in 0..MaxListed } }
    /\ broker_queues \in
          IF ManagementOk(mgmt)
            THEN { [n \in CandidateNames |-> AbsentQueue] }
            ELSE { [n \in CandidateNames |->
                      IF n = SystemQueues[1] THEN q1 ELSE q2] :
                   q1 \in QueueStates, q2 \in QueueStates }
    /\ queues_found = <<>>
    /\ probes = 0
    /\ disc_exc = "none"
    /\ InitNoSend
    /\ InitLater

NextSearch ==
    \/ \E term \in SearchTerms : SearchStart(term)
    \/ \E typed \in Choices : SearchChoose(typed)
    \/ \E term \in MenuTerms : MenuInspect(term)
    \/ ListEnsure

SpecSearch == InitSearch /\ [][NextSearch]_vars

\* ----------------------------------------------------- list_queue_commands
\* What a device's command queue holds: commands as send_command writes
\* them, and text that is not JSON.
CommandBodies == { ObjectBody("absent", "absent"), TextBody }

\* The command queue holds up to MaxListing messages, more than the tool
\* shows at once.
InitCommands ==
    /\ queue \in UNION { QueuesOver(CommandBodies, n) : n \in 0..MaxListing }
    /\ queue0 = queue
    /\ InitTool

NextCommands == ListQueueCommands

SpecCommands == InitCommands /\ [][NextCommands]_vars

\* ------------------------------------------------------------------ claims
\* peek_messages has returned.
PeekReturned == op = "peek" /\ pc = "idle"

\* The body is a JSON object whose imei field is the device d.
HasDevice(body, d) == body.utf8 /\ body.json = "object" /\ body.imei = d

\* C1. Order preservation: after a peek without a device filter has returned,
\* the queue delivers the same messages in the same order as before the peek.
C1_OrderPreserved ==
    (PeekReturned /\ target_imei = NoImei) => queue = queue0

C1_Witness ==
    /\ PeekReturned
    /\ target_imei = NoImei
    /\ Len(fetched) >= 2
    /\ Len(nacked) >= 2

\* C2. Restoration: when the cleanup of peek_messages is over, every fetched
\* message has been negatively acknowledged and none is left unacknowledged,
\* also when displaying or decoding a fetched message raised.
C2_AllRestored ==
    (op = "peek" /\ pc \in {"peek_end", "idle"}) =>
        /\ unacked = {}
        /\ \A k \in 1..Len(fetched) : \E j \in 1..Len(nacked) : nacked[j] = fetched[k].id

C2_Witness ==
    /\ PeekReturned
    /\ exc # "none"
    /\ displayed # <<>>
    /\ Len(fetched) >= 2

\* C3. Count invariance: after any peek, filtered or not, the queue holds as
\* many pending messages as before it.
C3_CountInvariant ==
    PeekReturned => Len(queue) = Len(queue0)

C3_Witness ==
    /\ PeekReturned
    /\ target_imei # NoImei
    /\ Len(fetched) >= 3
    /\ Len(displayed) = 1

\* C4. Lifecycle in the other browsing operations: when list_queue_commands,
\* inspect_queue_by_name, _check_command_queue_status or _analyze_message_types
\* has completed, no message it fetched is left unacknowledged.
C4_BrowseRestores ==
    (pc = "idle" /\ op \in {"list", "inspect", "cmdstatus", "analyze"}) =>
        \A k \in 1..Len(fetched) :
            /\ fetched[k] \notin unacked
            /\ fetched[k] \in Range(queue)

\* C5. Restoration order: the j-th negative acknowledgment of the cleanup is
\* for the j-th message from the end of the fetch order, and the cleanup ends
\* with the first fetched message.
C5_ReverseOrder ==
    op = "peek" =>
        /\ Len(nacked) <= Len(fetched)
        /\ \A j \in 1..Len(nacked) : nacked[j] = fetched[Len(fetched) - j + 1].id
        /\ pc \in {"peek_end", "idle"} => Len(nacked) = Len(fetched)

C5_Witness ==
    /\ op = "peek"
    /\ pc = "peek_end"
    /\ Len(nacked) >= 3

\* C6. Filtered peek with no match: when no fetched message is of the target
\* device, nothing is displayed and the queue is as it was before the peek.
C6_FilteredNoMatch ==
    ( /\ PeekReturned
      /\ target_imei # NoImei
      /\ \A k \in 1..Len(fetched) : ~HasDevice(fetched[k].body, target_imei) ) =>
        /\ displayed = <<>>
        /\ messages_shown = 0
        /\ queue = queue0

C6_Witness ==
    /\ PeekReturned
    /\ target_imei # NoImei
    /\ Len(fetched) >= 2
    /\ \A k \in 1..Len(fetched) : ~HasDevice(fetched[k].body, target_imei)
    /\ \E k \in 1..Len(fetched) : fetched[k].body = TextBody
    /\ \E k \in 1..Len(fetched) : HasDevice(fetched[k].body, "111")

\* C7. Fetch budget: for a limit >= 0, a peek calls basic_get at most
\* min(queue_depth, limit * 3) times with a device filter and at most
\* min(queue_depth, limit) times without, and calls it no more once the broker
\* reported no message.
C7_Bound ==
    IF target_imei # NoImei
      THEN Min(message_count, limit * 3)
      ELSE Min(message_count, limit)

C7_FetchBudget ==
    op = "peek" =>
        /\ gets <= C7_Bound
        /\ gotNone => (pc # "peek_fetch" /\ gets = Len(fetched) + 1)
        /\ ~gotNone => gets = Len(fetched)

C7_Witness ==
    /\ PeekReturned
    /\ gotNone
    /\ target_imei # NoImei
    /\ Len(fetched) >= 1
    /\ Len(fetched) < C7_Bound

\* C8. Display bound: the messages displayed are the first min(limit, m)
\* matching messages in delivery order, m counting the matching messages
\* within the fetch budget.
C8_Matches(m) == target_imei = NoImei \/ HasDevice(m.body, target_imei)

C8_Expected ==
    LET inBudget == SubSeq(queue0, 1, C7_Bound)
        matching == SelectSeq(inBudget, C8_Matches)
    IN  SubSeq(matching, 1, Min(limit, Len(matching)))

C8_DisplayBound ==
    (PeekReturned /\ message_count > 0) =>
        /\ Len(displayed) <= limit
        /\ [k \in 1..Len(displayed) |-> displayed[k].id] = Ids(C8_Expected)

\* C9. Decode totality: no exception leaves a decoding step; a displayed body
\* that fails to parse is shown as RAW and an object without a type field as
\* UNKNOWN.
C9_ById(id) == CHOOSE m \in Range(queue0) : m.id = id

C9_DecodeTotal ==
    op = "peek" =>
        /\ exc = "none"
        /\ \A k \in 1..Len(displayed) :
              LET body == C9_ById(displayed[k].id).body
              IN  /\ JsonLoads(body) # "ok" => displayed[k].cls = "RAW"
                  /\ (body.json = "object" /\ body.type = "absent")
                        => displayed[k].cls = "UNKNOWN"

\* C10. Empty versus no match: an empty queue is reported as such and nothing
\* is fetched; a filtered peek of a non-empty queue that displayed nothing
\* reports that no message was found for the device; the two reports are never
\* exchanged and an unfiltered peek never reports a missing device.
C10_Reports ==
    PeekReturned =>
        /\ message_count = 0 =>
              (log = {"no_messages_to_peek"} /\ gets = 0)
        /\ message_count > 0 => "no_messages_to_peek" \notin log
        /\ (message_count > 0 /\ target_imei # NoImei /\ messages_shown = 0)
              => "no_messages_for_imei" \in log
        /\ (message_count = 0 \/ target_imei = NoImei \/ messages_shown > 0)
              => "no_messages_for_imei" \notin log

\* C11: whenever a negative acknowledgment of the cleanup has failed, the
\* failure was logged at a level that the configured logging level lets through.
C11_FailureVisible ==
    \A r \in logged : r.msg = "error_requeuing" => Visible(r.level)

\* ensure_connection has returned to the operation that called it.
EnsureReturned == pc = "op_use" /\ ensured

\* C12 (as stated): when ensure_connection finds the connection open and the
\* channel closed, it returns with the same connection and a new channel.
C12_RecreatesOnlyChannel ==
    (EnsureReturned /\ conn0.open /\ ~chan0.open) =>
        (connection = conn0 /\ channel.id # chan0.id)

\* C12 (amended): ensure_connection returns with an open channel on the open
\* connection; it changes nothing when both were open; when the connection was
\* open and the channel closed it keeps the connection and installs a new
\* channel, unless creating the channel failed, and then it reconnects; when
\* the connection was closed it installs a new connection.
C12_Minimal ==
    EnsureReturned =>
        /\ connection.open /\ channel.open /\ channel.conn = connection.id
        /\ (conn0.open /\ chan0.open) =>
               (connection = conn0 /\ channel = chan0)
        /\ (conn0.open /\ ~chan0.open /\ ~chan_failed) =>
               (connection = conn0 /\ channel.id # chan0.id)
        /\ (conn0.open /\ ~chan0.open /\ chan_failed) =>
               connection.id # conn0.id
        /\ ~conn0.open => connection.id # conn0.id

\* ensure_connection recreated only the channel of a connection it had.
C12_Witness ==
    /\ EnsureReturned
    /\ conn0.open /\ ~chan0.open /\ chan0.id # 0 /\ ~chan_failed
    /\ connection = conn0 /\ channel.id # chan0.id

\* C13: every use of the channel by an operation comes after the operation
\* called ensure_connection.
C13_EnsuredUse == use.op # "none" => use.ensured

\* C14: the process never has more than one open connection to the broker.
C14_SingleConnection == Cardinality(conns_open) <= 1

\* C15: within a call of connect, every failed attempt has been reported and
\* answered by the operator before the next attempt starts; connect returns
\* only after a successful attempt, and otherwise ends only when the operator
\* chose to quit.
C15_NoSilentRetry ==
    /\ pc = "connect_try" => (reported = failed /\ decided = failed)
    /\ pc = "connect_prompt" => (reported = failed /\ decided = failed - 1)
    /\ connect_result = "returned" => last_attempt = "ok"
    /\ connect_result = "quit" => (last_choice = "q" /\ last_attempt = "failed")
    /\ pc = "exited" => connect_result = "quit"

\* connect starts another attempt after a failed one.
C15_Witness == pc = "connect_try" /\ failed >= 1 /\ last_choice \in {"1", "other"}

\* _discover_queues_smart has returned.
Discovered == op = "discover" /\ pc = "idle"

\* C16: when the management endpoint is unreachable or answers a status other
\* than 200, discovery raises nothing, every snapshot it returns is a candidate
\* that exists at the broker with the broker's counts, and a warning visible
\* under the configured logging level says that the result may be incomplete.
C16_FallbackMarked ==
    (Discovered /\ ~ManagementOk(mgmt)) =>
        /\ disc_exc = "none"
        /\ \A k \in 1..Len(queues_found) :
              LET s == queues_found[k] IN
              /\ \E c \in 1..Len(SystemQueues) : SystemQueues[c] = s.name
              /\ broker_queues[s.name].exists
              /\ s.messages = broker_queues[s.name].messages
              /\ s.consumers = broker_queues[s.name].consumers
        /\ \E r \in logged :
              /\ r.msg \in {"no_queues_discovered", "fallback_may_miss_queues"}
              /\ Visible(r.level)

\* The fallback returned a queue it found by probing.
C16_Witness ==
    /\ Discovered /\ ~ManagementOk(mgmt) /\ mgmt.reachable
    /\ Len(queues_found) >= 2

\* C17: when the management endpoint answers 200, discovery returns one
\* snapshot per descriptor of the response, in order, with the name and the
\* counts of the descriptor, and issues no passive declare.
C17_ManagementPreferred ==
    (Discovered /\ ManagementOk(mgmt)) =>
        /\ Len(queues_found) = Len(mgmt.queues)
        /\ \A k \in 1..Len(mgmt.queues) :
              LET d == mgmt.queues[k]
                  s == queues_found[k]
              IN  /\ "name" \in d.has => s.name = d.name
                  /\ "messages" \in d.has => s.messages = d.messages
                  /\ "consumers" \in d.has => s.consumers = d.consumers
        /\ probes = 0
        /\ channel.open

\* The management path returned two snapshots with counts, although some
\* candidate queue does not exist.
C17_Witness ==
    /\ Discovered /\ ManagementOk(mgmt)
    /\ Len(queues_found) = 2
    /\ queues_found[1].messages > 0
    /\ \E k \in 1..Len(SystemQueues) : ~broker_queues[SystemQueues[k]].exists

\* C18: no two snapshots discovery returns have the same name.
C18_DistinctNames ==
    Discovered =>
        \A j, k \in 1..Len(queues_found) :
            j # k => queues_found[j].name # queues_found[k].name

\* The channel calls of a send_command that returns True.
C19_Expected ==
    << Call("queue_declare", TRUE, FALSE, 0),
       Call("basic_publish", FALSE, FALSE, 2),
       Call("queue_declare", FALSE, TRUE, 0) >>

\* C19: the channel calls of send_command are, in this order and in no other,
\* the durable declare, the publish with delivery mode 2 and the passive
\* declare; a send_command that returns True has made all three.
C19_Ordering ==
    op = "send_command" =>
        /\ Len(calls) <= Len(C19_Expected)
        /\ \A k \in 1..Len(calls) : calls[k] = C19_Expected[k]
        /\ send_result = "true" => calls = C19_Expected

\* send_command returned True.
C19_Witness == op = "send_command" /\ pc = "idle" /\ send_result = "true"

\* C20: after send_command(device, text) returned True on a queue of depth d
\* with no consumer, the queue has depth d + 1 and the message at its tail is a
\* JSON object whose command field is text.
C20_RoundTrip ==
    (op = "send_command" /\ pc = "idle" /\ send_result = "true") =>
        /\ Len(cmd_queue) = depth0 + 1
        /\ LET body == cmd_queue[Len(cmd_queue)].body IN
           /\ ParseOutcome(body) = "ok"
           /\ DictGet(body, "command", "Unknown") = sent.command

\* A command was appended behind a different command.
C20_Witness ==
    /\ op = "send_command" /\ pc = "idle" /\ send_result = "true"
    /\ depth0 >= 1
    /\ Len(cmd_queue) = depth0 + 1
    /\ cmd_queue[1].body.command # cmd_queue[Len(cmd_queue)].body.command

\* The command-id of the k-th command published to the device's queue.
C21_IdAt(k) == cmd_queue[k].body.command_id

C22_NotFoundIsNormal ==
    [][(~queue_exists /\ op' \in {"check_queue_status", "inspect"}) =>
          /\ op_result' # "raised"
          /\ op' = "inspect" =>
                (op_result' = "false" /\ "not_found_or_not_accessible" \in log')
          /\ op' = "check_queue_status" => "error_checking_status" \in log'
          /\ ~queue_exists'
          /\ queue' = queue /\ unacked' = unacked]_vars

\* Both operations met a queue that does not exist.
C22_Witness ==
    /\ op = "inspect" /\ pc = "idle" /\ exc = "ChannelClosedByBroker"
    /\ chans_made >= 2

\* C23: purge_queue empties the queue only when the operator's answer is yes
\* or y; after any other answer, and on an empty queue, the queue is what it
\* was when purge_queue was called.
C23_PurgeConfirmed ==
    (op = "purge" /\ pc = "idle") =>
        /\ queue # queue0 => StripLower(answer) \in {"yes", "y"}
        /\ StripLower(answer) \notin {"yes", "y"} => queue = queue0
        /\ "purged" \in log => (queue = <<>> /\ queue0 # <<>>)
        /\ "purge_cancelled" \in log => (queue = queue0 /\ queue0 # <<>>)
        /\ "already_empty" \in log => (queue = <<>> /\ queue0 = <<>>)

\* The operator declined and the queue kept its messages.
C23_Witness ==
    /\ op = "purge" /\ pc = "idle" /\ answer = "yes please"
    /\ Len(queue) >= 2 /\ queue = queue0

\* C24: whenever no monitor is running, no consumer registered by the tool
\* is left at the broker.
C24_NoConsumerLeft == pc = "idle" => consumers = {}

\* A monitor that acknowledged a message ended on an error of the callback,
\* with the channel still open.
C24_Witness ==
    /\ op = "monitor" /\ pc = "idle"
    /\ exc \in {"UnicodeDecodeError", "AttributeError"}
    /\ channel.open /\ Len(mon_acked) >= 1

\* The rows of the table agree with the arguments of the call that printed it.
ListShown == op = "list" /\ list_outcome = "table"

\* C25: the status of every row shown by list_all_queues is exactly one of
\* BUSY, ACTIVE, BACKLOG, IDLE: BUSY iff messages and consumers are both
\* positive, ACTIVE iff only consumers, BACKLOG iff only messages, IDLE iff
\* both are zero.
C25_Classification ==
    op = "list" =>
      \A k \in 1..Len(listed) :
        LET m == listed[k].queue.messages
            c == listed[k].queue.consumers
            st == listed[k].status
        IN  /\ st \in {"BUSY", "ACTIVE", "BACKLOG", "IDLE"}
            /\ st = "BUSY" <=> (m > 0 /\ c > 0)
            /\ st = "ACTIVE" <=> (c > 0 /\ m = 0)
            /\ st = "BACKLOG" <=> (c = 0 /\ m > 0)
            /\ st = "IDLE" <=> (c = 0 /\ m = 0)

\* A table with a BUSY row and a row of another status.
C25_Witness ==
    /\ ListShown
    /\ \E k \in 1..Len(listed) : listed[k].status = "BUSY"
    /\ \E k \in 1..Len(listed) : listed[k].status = "BACKLOG"

\* The number of positions of sq that hold x.
Count(sq, x) == Cardinality({ k \in 1..Len(sq) : sq[k] = x })

\* The rows are the discovered queues that are in keep, each as often as it
\* was discovered, and nothing else.
KeepsExactly(keep) ==
    LET shown == [k \in 1..Len(listed) |-> listed[k].queue]
    IN  /\ \A k \in 1..Len(shown) : shown[k] \in keep
        /\ \A k \in 1..Len(queues_found) :
              queues_found[k] \in keep =>
                Count(shown, queues_found[k]) = Count(queues_found, queues_found[k])
        /\ \A k \in 1..Len(shown) :
              Count(shown, shown[k]) = Count(queues_found, shown[k])

\* The snapshots that were discovered or shown.
Snapshots ==
    { queues_found[k] : k \in 1..Len(queues_found) }
    \cup { listed[k].queue : k \in 1..Len(listed) }

\* The name has 15 characters and all of them are digits.
FifteenDigits(name) ==
    /\ Len(Chars(name)) = 15
    /\ \A k \in 1..Len(Chars(name)) : Chars(name)[k] \in Digits

C27_DisplayOrder ==
    op = "list" =>
      \A a, b \in 1..Len(listed) :
        a < b =>
          LET x == listed[a].queue
              y == listed[b].queue
          IN  /\ (y.consumers > 0) => (x.consumers > 0)
              /\ ((x.consumers > 0) = (y.consumers > 0)) =>
                    /\ (y.messages > 0) => (x.messages > 0)
                    /\ ((x.messages > 0) = (y.messages > 0)) =>
                          /\ x.messages >= y.messages
                          /\ x.messages = y.messages =>
                                x.consumers >= y.consumers

\* The discovery returned a queue with messages only before a queue with
\* consumers only, and the table shows them the other way round.
C27_Witness ==
    /\ ListShown /\ Len(listed) = 2 /\ Len(queues_found) = 2
    /\ queues_found[1].consumers = 0 /\ queues_found[1].messages = 2
    /\ queues_found[2].consumers = 1 /\ queues_found[2].messages = 0
    /\ listed[1].queue = queues_found[2]

\* The discovered snapshots the search term is a case-insensitive substring
\* of, written out for the names and terms of the model.
C28_Hits ==
    { k \in 1..Len(queues_found) :
        LET n == queues_found[k].name IN
        CASE search_term = "3503" ->
               n \in {"350317177240177", "35031717724017A", "Device_3503"}
          [] search_term = "DEVICE" ->
               n \in {"device_tcp_data", "device_commands", "Device_3503"}
          [] search_term = "tcp" -> n = "device_tcp_data"
          [] OTHER -> FALSE }

\* C28: a partial-name search with no matching queue returns False with the
\* hint and inspects nothing; with exactly one matching queue it inspects
\* that queue without a prompt; with more than one it shows the list and
\* inspects nothing before the operator has chosen.
C28_ThreeOutcomes ==
    (op = "search" /\ search_choice = "none") =>
      /\ Cardinality(C28_Hits) = 0 =>
            /\ pc = "idle" /\ search_outcome = "no_queues_hint"
            /\ search_result = "False" /\ inspected = <<>>
      /\ Cardinality(C28_Hits) = 1 =>
            /\ pc = "idle" /\ search_outcome = "found_one"
            /\ inspected = << queues_found[CHOOSE k \in C28_Hits : TRUE].name >>
            /\ search_result \in {"True", "False"}
      /\ Cardinality(C28_Hits) > 1 =>
            /\ pc = "search_prompt" /\ search_outcome = "list"
            /\ inspected = <<>> /\ search_result = "none"

\* One of two discovered queues matched and was inspected directly.
C28_Witness ==
    /\ op = "search" /\ search_choice = "none"
    /\ Len(queues_found) = 2 /\ Cardinality(C28_Hits) = 1
    /\ Len(inspected) = 1 /\ search_result = "True"

\* C29: the disambiguation list holds exactly the discovered queues whose
\* name contains the search term as a case-insensitive substring, each once
\* per discovered snapshot, in descending order of message count.
C29_ListExact ==
    (op = "search" /\ search_outcome = "list") =>
      /\ \A k \in 1..Len(matching_queues) :
            \E j \in C28_Hits : queues_found[j] = matching_queues[k]
      /\ \A j \in C28_Hits :
            Count(matching_queues, queues_found[j]) =
              Cardinality({ h \in C28_Hits : queues_found[h] = queues_found[j] })
      /\ \A a, b \in 1..Len(matching_queues) :
            a < b => matching_queues[a].messages >= matching_queues[b].messages

\* The term 3503 is listed for Device_3503 and for a numeric name, and the
\* queue with more messages, discovered second, comes first.
C29_Witness ==
    /\ op = "search" /\ search_outcome = "list" /\ search_term = "3503"
    /\ Len(matching_queues) = 2
    /\ matching_queues[1] = queues_found[2]
    /\ matching_queues[1].messages > matching_queues[2].messages
    /\ \E k \in 1..2 : matching_queues[k].name = "Device_3503"

\* C30: when the discovery falls back to probing, the names it returns are
\* exactly the candidates that exist at the broker; a missing candidate does
\* not hide a later candidate that exists.
C30_ProbeComplete ==
    (op = "discover" /\ ManagementOutcome(mgmt) # "ok" /\ disc_exc = "none") =>
      { queues_found[k].name : k \in 1..Len(queues_found) } =
        { n \in CandidateNames : broker_queues[n].exists }

\* C31: inspect_queue_by_name on a queue of n > 0 messages shows as samples
\* the first min(3, n) messages of the queue, each once, in queue order.
C31_SamplesFromHead ==
    (pc = "idle" /\ op = "inspect" /\ exc = "none" /\ queue0 # <<>>) =>
      [k \in 1..Len(displayed) |-> displayed[k].id] =
        [k \in 1..Min(3, Len(queue0)) |-> queue0[k].id]

\* C32: at choice 5 of the menu a term that is the name of an existing queue
\* makes the tool inspect that queue alone, without a discovery and without
\* a partial-name search; the partial-name search runs only when no queue of
\* that name exists.
C32_ExactFirst ==
    op = "menu_inspect" =>
      /\ QueueExistsNow(search_term) =>
            /\ search_outcome = "exact_match" /\ pc = "idle"
            /\ inspected = << search_term >>
            /\ discoveries = 0 /\ matching_queues = <<>>
      /\ ~QueueExistsNow(search_term) =>
            /\ search_outcome # "exact_match"
            /\ discoveries = 1

\* The numeric name is one of two queues at the broker and was inspected
\* directly.
C32_Witness ==
    /\ op = "menu_inspect" /\ search_term = "350317177240177"
    /\ search_outcome = "exact_match" /\ search_result = "True"
    /\ Len(mgmt.queues) = 2

\* C33: list_all_queues called with show_active_only=True shows only queues
\* with messages or consumers, whatever the filter_type.
C33_ActiveOnly ==
    (op = "list" /\ show_active_only) =>
      \A k \in 1..Len(listed) :
        listed[k].queue.messages > 0 \/ listed[k].queue.consumers > 0

\* The sampled messages of the device d.
C34_Of(d) ==
    { k \in 1..Len(fetched) :
        /\ fetched[k].body.utf8 /\ fetched[k].body.json = "object"
        /\ fetched[k].body.imei = d }

\* C34: in check_monitor_status with a target device the number reported
\* as messages from the target device is the number of sampled messages
\* whose imei is the target, and the breakdown by type counts only sampled
\* messages of the target device.
C34_TargetCounts ==
    (pc = "idle" /\ op = "analyze" /\ exc = "none" /\ target_imei # NoImei) =>
      /\ filtered_count # NotReported =>
            filtered_count = Cardinality(C34_Of(target_imei))
      /\ \A t \in TypeNames :
            message_types[t] =
              Cardinality({ k \in C34_Of(target_imei) :
                  t = IF fetched[k].body.type = "absent" THEN "UNKNOWN"
                      ELSE fetched[k].body.type })

\* C35: list_queue_commands on a queue of n commands fetches all n, shows
\* all of them when n <= 10 and otherwise the last 10 in queue order under
\* the numbers n-9 .. n, and leaves the queue with the same n commands in
\* the same order.
C35_ListsLastTen ==
    (pc = "idle" /\ op = "list") =>
      LET n == Len(queue0)
          first == IF n <= 10 THEN 1 ELSE n - 9
      IN  /\ fetched = queue0
          /\ Len(displayed) = n - first + 1
          /\ \A k \in 1..Len(displayed) :
                /\ displayed[k].id = queue0[first + k - 1].id
                /\ displayed[k].num = first + k - 1
          /\ queue = queue0
          /\ unacked = {}

\* A queue of 11 commands was listed.
C35_Witness ==
    /\ pc = "idle" /\ op = "list"
    /\ Len(queue0) = 11
    /\ Len(displayed) = 10
    /\ displayed[1].num = 2

\* C36: a passive declare that hit a queue that does not exist does not
\* damage the session: while the connection to the broker is open, the next
\* operation that uses the channel finds it open.
C36_SessionSurvives ==
    [][(pc = "op_use" /\ pc' = "idle" /\ connection.open) => use'.open]_vars

\* The number of places that hold the message m: its positions in the queue,
\* the other consumer's unacknowledged deliveries, and the messages the
\* other consumer acknowledged.
C37_Places(m) ==
    Count(queue, m) + (IF m \in inflight THEN 1 ELSE 0)
                    + (IF m \in consumed THEN 1 ELSE 0)

\* C37 as stated: after a peek that ran while another consumer was
\* consuming, every message of the queue is in the queue once or was
\* acknowledged by the consumer.
C37_QueueOrAcked ==
    PeekReturned =>
      \A m \in Range(queue0) :
        \/ Count(queue, m) = 1 /\ m \notin consumed
        \/ Count(queue, m) = 0 /\ m \in consumed

\* C37: after a peek that ran while another consumer was consuming, every
\* message that was in the queue at the start is in exactly one place: in
\* the queue once, delivered to the consumer and not yet acknowledged, or
\* acknowledged by the consumer; the browser holds none of them.
C37_NoLossNoDuplicate ==
    PeekReturned =>
      \A m \in Range(queue0) : C37_Places(m) = 1 /\ m \notin unacked

\* The peek fetched and returned a message while the consumer took another.
C37_Witness ==
    /\ PeekReturned
    /\ Len(fetched) >= 1
    /\ Cardinality(inflight) + Cardinality(consumed) >= 1
    /\ Len(queue0) >= 2

\* C38: a send_command that returned False added no message to the device's
\* queue: the queue is as deep as it was when the call started.
C38_FalseUnpublished ==
    (op = "send_command" /\ pc = "idle" /\ send_result = "false") =>
        Len(cmd_queue) = depth0

\* The number of basic_nack calls the cleanup made with the given delivery tag.
C39_Attempts(tag) == Cardinality({ k \in 1..Len(nacked) : nacked[k] = tag })

\* C39: when the cleanup of peek_messages has finished, basic_nack has been
\* called exactly once with the delivery tag of every fetched message and with
\* no other tag, whether or not some of the calls raised.
C39_OneAttemptEach ==
    (op = "peek" /\ pc \in {"peek_end", "idle"} /\ message_count > 0) =>
        /\ \A k \in 1..Len(fetched) : C39_Attempts(fetched[k].id) = 1
        /\ Len(nacked) = Len(fetched)

\* A peek has ended in which the first nack of the cleanup raised and a later
\* one was still made and succeeded.
C39_Witness ==
    /\ op = "peek" /\ pc = "idle"
    /\ Len(fetched) >= 2
    /\ \E r \in logged : r.tag = nacked[1]
    /\ \E k \in 2..Len(nacked) : \A r \in logged : r.tag # nacked[k]

\* C40: every message delivered to the callback of monitor_realtime has been
\* acknowledged by it exactly once, and is not in the queue any more.
C40_AckedOnce ==
    op = "monitor" =>
        \A k \in 1..Len(fetched) :
            /\ Cardinality({ j \in 1..Len(mon_acked) : mon_acked[j] = fetched[k].id }) = 1
            /\ \A j \in 1..Len(queue) : queue[j].id # fetched[k].id

====
